---------------------------- MODULE Spec2Model ----------------------------
(***************************************************************************)
(* Ledger core of the group savings backend: the savings, borrowing,       *)
(* penalty and member handlers of backend/src/controllers, each modelled   *)
(* as one database transaction over the tables person, personal_balance,   *)
(* group_pool, borrowing, payment, daily_summary and transaction_log.      *)
(*                                                                         *)
(* Money is counted in cents (the tables hold 2-decimal amounts), dates    *)
(* and the clock in whole days.  A handler is an operator from the         *)
(* committed database and the request to the database it commits and the   *)
(* response it sends; conn.rollback() commits the database it started      *)
(* from.                                                                   *)
(***************************************************************************)
EXTENDS Integers, Sequences, FiniteSets, TLC

VARIABLES person, personal_balance, group_pool, borrowing, payment,
          daily_summary, transaction_log, now, request, response, served, txn

vars == <<person, personal_balance, group_pool, borrowing, payment,
          daily_summary, transaction_log, now, request, response, served, txn>>

tables == <<person, personal_balance, group_pool, borrowing, payment,
            daily_summary, transaction_log>>

----------------------------------------------------------------------------
(* Bounds of the model *)

\* a savings run calls handlers until transaction_log has grown by this many rows
MaxSaves == 2
\* a borrowing run calls handlers until transaction_log has grown by this many rows
MaxSteps == 3
\* the clock stops here
MaxNow == 61
\* a ledger run serves this many requests
MaxServed == 3
\* a penalty run runs this many sweeps
MaxSweeps == 3

(* Program constants, in cents and days *)
UNIT_PRICE == 50000
VALIDITY_FEE == 10000
FINE_AMOUNT == 50000
MAIN_PERIOD_DAYS == 30
VALIDITY_PERIOD_DAYS == 7
DAILY_CAP == 4
MIN_SAVED_COUNT == 3

\* the day the model starts on; day StartDay - 1 is in the past
StartDay == 1

PoolTypes == {"MAIN", "VALIDITY"}

\* SQL NULL, and a value that is present
Null == <<>>
Some(x) == <<x>>

----------------------------------------------------------------------------
(* The database as one value, and the statements the handlers run on it *)

DB == [person |-> person, personal_balance |-> personal_balance,
       group_pool |-> group_pool, borrowing |-> borrowing,
       payment |-> payment, daily_summary |-> daily_summary,
       transaction_log |-> transaction_log]

\* +(x / den).toFixed(2), in cents: the nearest integer to x / den.  When x / den lies
\* exactly between two cents the double that holds it decides, so either neighbour
\* can come out: tieUp says which.
ToFixed2(x, den, tieUp) ==
  LET q == x \div den
      r == x % den
  IN IF 2 * r < den THEN q
     ELSE IF 2 * r > den THEN q + 1
     ELSE IF tieUp THEN q + 1 ELSE q

\* INSERT INTO personal_balance (person_id, 0.00, 0.00)
InsertPersonalBalance(tx, personId) ==
  [tx EXCEPT !.personal_balance =
     [p \in DOMAIN tx.personal_balance \cup {personId} |->
        IF p = personId
        THEN [main_savings_balance |-> 0, validity_savings_balance |-> 0]
        ELSE tx.personal_balance[p]]]

\* SELECT ... FOR UPDATE, then INSERT if there is no row
EnsurePersonalBalance(tx, personId) ==
  IF personId \in DOMAIN tx.personal_balance THEN tx
  ELSE InsertPersonalBalance(tx, personId)

\* UPDATE personal_balance SET main_savings_balance = main_savings_balance + ?
AddMainSavings(tx, personId, amt) ==
  [tx EXCEPT !.personal_balance[personId].main_savings_balance = @ + amt]

\* UPDATE personal_balance SET validity_savings_balance = validity_savings_balance + ?
AddValiditySavings(tx, personId, amt) ==
  [tx EXCEPT !.personal_balance[personId].validity_savings_balance = @ + amt]

\* UPDATE group_pool SET balance = balance + ? WHERE pool_type = ?
AddGroupPool(tx, poolType, amt) ==
  [tx EXCEPT !.group_pool[poolType] = @ + amt]

\* INSERT INTO payment (person_id, type, amount, effective_date)
InsertPayment(tx, personId, type, amt, date) ==
  [tx EXCEPT !.payment = Append(@,
     [person_id |-> personId, type |-> type, amount |-> amt,
      effective_date |-> Some(date), applied_to_borrowing_id |-> Null])]

\* INSERT INTO payment (person_id, "DEBT_PAYMENT", amount, applied_to_borrowing_id)
InsertDebtPayment(tx, personId, amt, borrowingId) ==
  [tx EXCEPT !.payment = Append(@,
     [person_id |-> personId, type |-> "DEBT_PAYMENT", amount |-> amt,
      effective_date |-> Null, applied_to_borrowing_id |-> Some(borrowingId)])]

\* INSERT INTO transaction_log (...): columns the statement leaves out are NULL
InsertLog(tx, personId, type, details, amt, pMain, pValidity, gMain, gValidity) ==
  [tx EXCEPT !.transaction_log = Append(@,
     [person_id |-> personId, transaction_type |-> type, details |-> details,
      amount |-> amt,
      resulting_person_main_balance |-> pMain,
      resulting_person_validity_balance |-> pValidity,
      resulting_group_main_balance |-> gMain,
      resulting_group_validity_balance |-> gValidity])]

\* INSERT INTO daily_summary (person_id, date, validity_paid, units_count[, fine_amount])
InsertDaily(tx, personId, date, validityPaid, unitsCount, fine) ==
  [tx EXCEPT !.daily_summary =
     [k \in DOMAIN tx.daily_summary \cup {<<personId, date>>} |->
        IF k = <<personId, date>>
        THEN [validity_paid |-> validityPaid, units_count |-> unitsCount,
              fine_amount |-> fine]
        ELSE tx.daily_summary[k]]]

\* what DELETE leaves of a borrowing: its id is not given to another row
NoRow ==
  [person_id |-> 0, pool_type |-> "", principal |-> 0, initial_profit_amount |-> 0,
   outstanding_amount |-> 0, status |-> "DELETED", due_date |-> 0,
   last_payment_at |-> Null, last_penalty_applied_at |-> Null]

\* The response of a handler and the database it leaves committed
Reply(db, op, status, error, body) ==
  [db |-> db, res |-> [op |-> op, status |-> status, error |-> error, body |-> body]]

NoBody == [none |-> TRUE]

----------------------------------------------------------------------------
(* savingsController: createMember *)

\* process.env.ADMIN_PASSWORD as deployed; a request may carry it, none ("") or a guess
ADMIN_PASSWORD == "admin"

createMember(db, name, adminPassword) ==
  LET personId == Cardinality(db.person) + 1
      t1 == [db EXCEPT !.person = @ \cup {personId}]
      t2 == InsertPersonalBalance(t1, personId)
      t3 == InsertLog(t2, Some(personId), "GROUP_ADJUST", [note |-> "member created"],
                      0, Null, Null, Null, Null)
  IN IF name = ""
     THEN Reply(db, "createMember", 400, "NAME_REQUIRED", NoBody)
     ELSE IF adminPassword = "" \/ adminPassword # ADMIN_PASSWORD
     THEN Reply(db, "createMember", 403, "BAD_CREDENTIAL", NoBody)
     ELSE Reply(t3, "createMember", 200, "", [personId |-> personId, name |-> name])

----------------------------------------------------------------------------
(* savingsController: saveUnitsAndValidity *)

\* the validity fee: personal balance, VALIDITY payment, VALIDITY pool
ApplyValidity(tx, personId, date) ==
  LET t1 == AddValiditySavings(tx, personId, VALIDITY_FEE)
      t2 == InsertPayment(t1, personId, "VALIDITY", VALIDITY_FEE, date)
  IN AddGroupPool(t2, "VALIDITY", VALIDITY_FEE)

\* the units: personal balance, UNIT payment, MAIN pool
ApplyUnits(tx, personId, units, date) ==
  LET unitsAmount == units * UNIT_PRICE
      t1 == AddMainSavings(tx, personId, unitsAmount)
      t2 == InsertPayment(t1, personId, "UNIT", unitsAmount, date)
  IN AddGroupPool(t2, "MAIN", unitsAmount)

\* balances read back with the MAIN pool's balance for both pools
BalancesOfMainPool(tx, personId) ==
  [main |-> tx.personal_balance[personId].main_savings_balance,
   validity |-> tx.personal_balance[personId].validity_savings_balance,
   groupMain |-> tx.group_pool["MAIN"],
   groupValidity |-> tx.group_pool["MAIN"]]

\* the balances read back for the log and the response
Balances(tx, personId) ==
  [main |-> tx.personal_balance[personId].main_savings_balance,
   validity |-> tx.personal_balance[personId].validity_savings_balance,
   groupMain |-> tx.group_pool["MAIN"],
   groupValidity |-> tx.group_pool["VALIDITY"]]

\* a log row written whatever was applied
SavingLoggedAlways(savedAmount) == TRUE

\* if (savedAmount > 0): the SAVING log row is written only if something was applied
SavingLogged(savedAmount) == savedAmount > 0

\* the SAVING log row (only if something was applied), the commit and the response
SaveFinish(tx, personId, date, appliedUnits, appliedValidity) ==
  LET bal == Balances(tx, personId)
      appliedUnitsAmount == appliedUnits * UNIT_PRICE
      savedAmount == appliedUnitsAmount + appliedValidity
      t1 == IF SavingLogged(savedAmount)
            THEN InsertLog(tx, Some(personId), "SAVING",
                           [date |-> date, appliedUnits |-> appliedUnits,
                            appliedValidity |-> appliedValidity],
                           savedAmount, Some(bal.main), Some(bal.validity),
                           Some(bal.groupMain), Some(bal.groupValidity))
            ELSE tx
  IN Reply(t1, "save", 200, "",
           [appliedUnits |-> appliedUnits, appliedUnitsAmount |-> appliedUnitsAmount,
            appliedValidityAmount |-> appliedValidity])

\* there is no daily_summary row for the date yet
SaveNewDay(tx, personId, units, payValidity, date) ==
  LET t1 == InsertDaily(tx, personId, date, payValidity, units, 0)
      t2 == IF payValidity THEN ApplyValidity(t1, personId, date) ELSE t1
      t3 == IF units > 0 THEN ApplyUnits(t2, personId, units, date) ELSE t2
  IN SaveFinish(t3, personId, date, IF units > 0 THEN units ELSE 0,
                IF payValidity THEN VALIDITY_FEE ELSE 0)

\* a cap check that answers without conn.rollback(): the fee it charged stays
SaveCapExceededNoRollback(db, tx) ==
  Reply(tx, "save", 400, "DAILY_CAP_EXCEEDED", NoBody)

\* the daily cap check of saveUnitsAndValidity: it rolls back to db
SaveCapExceeded(db, tx) ==
  Reply(db, "save", 400, "DAILY_CAP_EXCEEDED", NoBody)

\* a fee charged whenever it is asked for
SaveChargesValidityAlways(payValidity, daily) == payValidity

\* the validity fee is charged when asked for and not yet paid
SaveChargesValidity(payValidity, daily) == payValidity /\ ~daily.validity_paid

\* there is a daily_summary row for the date
SaveExistingDay(db, tx, personId, units, payValidity, date) ==
  LET daily == tx.daily_summary[<<personId, date>>]
      charge == SaveChargesValidity(payValidity, daily)
      t1 == IF charge
            THEN ApplyValidity(
                   [tx EXCEPT !.daily_summary[<<personId, date>>].validity_paid = TRUE],
                   personId, date)
            ELSE tx
      newUnits == daily.units_count + units
      t2 == IF units > 0
            THEN ApplyUnits(
                   [t1 EXCEPT !.daily_summary[<<personId, date>>].units_count = @ + units],
                   personId, units, date)
            ELSE t1
  IN IF newUnits > DAILY_CAP THEN SaveCapExceeded(db, t1)
     ELSE SaveFinish(t2, personId, date, IF units > 0 THEN units ELSE 0,
                     IF charge THEN VALIDITY_FEE ELSE 0)

saveUnitsAndValidity(db, today, personId, units, payValidity, effectiveDate) ==
  LET date == IF effectiveDate = Null THEN today ELSE effectiveDate[1]
      t1 == EnsurePersonalBalance(db, personId)
  IN IF units < 0 \/ units > 4
     THEN Reply(db, "save", 400, "INVALID_UNITS", NoBody)
     ELSE IF <<personId, date>> \notin DOMAIN t1.daily_summary
          THEN SaveNewDay(t1, personId, units, payValidity, date)
          ELSE SaveExistingDay(db, t1, personId, units, payValidity, date)

----------------------------------------------------------------------------
(* savingsController: retroactiveFill *)

\* the fine: MAIN pool, FINE payment, FINE log row
ChargeFine(tx, personId, date, fineToCharge) ==
  LET t1 == AddGroupPool(tx, "MAIN", fineToCharge)
      t2 == InsertPayment(t1, personId, "FINE", fineToCharge, date)
  IN InsertLog(t2, Some(personId), "FINE", [date |-> date], fineToCharge,
               Null, Null, Some(t2.group_pool["MAIN"]), Null)

\* a fine charged by every retroactive fill
FineForAlways(addUnits) == FINE_AMOUNT

\* the fine of a retroactive fill: only when units are added
FineFor(addUnits) == IF addUnits > 0 THEN FINE_AMOUNT ELSE 0

\* the fine, the SAVING log row (only if something was applied), the commit, the response
RetroFinish(tx, personId, date, appliedUnits, appliedValidityAmount, fineToCharge) ==
  LET appliedUnitsAmount == appliedUnits * UNIT_PRICE
      t1 == IF fineToCharge > 0 THEN ChargeFine(tx, personId, date, fineToCharge) ELSE tx
      totalApplied == appliedUnitsAmount + appliedValidityAmount + fineToCharge
      bal == Balances(t1, personId)
      t2 == IF totalApplied > 0
            THEN InsertLog(t1, Some(personId), "SAVING",
                           [date |-> date, appliedUnits |-> appliedUnits,
                            appliedUnitsAmount |-> appliedUnitsAmount,
                            appliedValidityAmount |-> appliedValidityAmount,
                            fineToCharge |-> fineToCharge],
                           totalApplied, Some(bal.main), Some(bal.validity),
                           Some(bal.groupMain), Some(bal.groupValidity))
            ELSE t1
  IN Reply(t2, "retroactive", 200, "",
           [appliedUnits |-> appliedUnits, appliedUnitsAmount |-> appliedUnitsAmount,
            appliedValidityAmount |-> appliedValidityAmount,
            fineApplied |-> fineToCharge])

\* there is no daily_summary row for the date yet
RetroNewDay(tx, personId, date, addUnits, payValidityIfMissing) ==
  LET fineToCharge == FineFor(addUnits)
      t1 == InsertDaily(tx, personId, date, payValidityIfMissing, addUnits, fineToCharge)
      t2 == IF payValidityIfMissing THEN ApplyValidity(t1, personId, date) ELSE t1
      t3 == IF addUnits > 0 THEN ApplyUnits(t2, personId, addUnits, date) ELSE t2
  IN RetroFinish(t3, personId, date, IF addUnits > 0 THEN addUnits ELSE 0,
                 IF payValidityIfMissing THEN VALIDITY_FEE ELSE 0, fineToCharge)

\* the daily cap check of retroactiveFill, made before any statement changes a row
RetroCapExceeded(daily, addUnits) == daily.units_count + addUnits > DAILY_CAP

\* a fee charged whenever it is asked for
RetroChargesValidityAlways(payValidityIfMissing, daily) == payValidityIfMissing

\* the validity fee is charged when asked for and not yet paid
RetroChargesValidity(payValidityIfMissing, daily) ==
  payValidityIfMissing /\ ~daily.validity_paid

\* there is a daily_summary row for the date
RetroExistingDay(db, tx, personId, date, addUnits, payValidityIfMissing) ==
  LET k == <<personId, date>>
      daily == tx.daily_summary[k]
      fineToCharge == FineFor(addUnits)
      t1 == [tx EXCEPT !.daily_summary[k].units_count = @ + addUnits,
                       !.daily_summary[k].fine_amount = @ + fineToCharge]
      charge == RetroChargesValidity(payValidityIfMissing, daily)
      t2 == IF charge
            THEN ApplyValidity([t1 EXCEPT !.daily_summary[k].validity_paid = TRUE],
                               personId, date)
            ELSE t1
      t3 == IF addUnits > 0 THEN ApplyUnits(t2, personId, addUnits, date) ELSE t2
  IN IF RetroCapExceeded(daily, addUnits)
     THEN Reply(db, "retroactive", 400, "UNITS_CAP_EXCEEDED", NoBody)
     ELSE RetroFinish(t3, personId, date, IF addUnits > 0 THEN addUnits ELSE 0,
                      IF charge THEN VALIDITY_FEE ELSE 0, fineToCharge)

retroactiveFill(db, today, personId, dateArg, addUnits, payValidityIfMissing) ==
  LET date == dateArg[1]
      t1 == EnsurePersonalBalance(db, personId)
  IN IF dateArg = Null
     THEN Reply(db, "retroactive", 400, "DATE_REQUIRED", NoBody)
     ELSE IF date >= today
     THEN Reply(db, "retroactive", 400, "DATE_NOT_PAST", NoBody)
     ELSE IF addUnits < 0 \/ addUnits > 4
     THEN Reply(db, "retroactive", 400, "INVALID_UNITS", NoBody)
     ELSE IF addUnits = 0 /\ ~payValidityIfMissing
     THEN Reply(db, "retroactive", 400, "NO_CHANGE_REQUESTED", NoBody)
     ELSE IF <<personId, date>> \notin DOMAIN t1.daily_summary
     THEN RetroNewDay(t1, personId, date, addUnits, payValidityIfMissing)
     ELSE RetroExistingDay(db, t1, personId, date, addUnits, payValidityIfMissing)

----------------------------------------------------------------------------
(* borrowingController: borrow, repay, payFull *)

BORROW_INTEREST_PCT == 10
BORROW_LIMIT_PCT == 130


\* rows of a table (a sequence, the id is the index) that satisfy Test
RowIds(rows, Test(_)) == {i \in 1 .. Len(rows) : Test(rows[i])}

\* dateAddDays(today, days)
dateAddDays(date, days) == date + days

\* a count of the units bought instead of the payments made
SavedCountOfUnits(tx, personId) ==
  tx.personal_balance[personId].main_savings_balance \div UNIT_PRICE

\* SELECT COUNT(*) FROM payment WHERE person_id = ? AND type = "UNIT"
SavedCount(tx, personId) ==
  LET IsUnit(r) == r.person_id = personId /\ r.type = "UNIT"
  IN Cardinality(RowIds(tx.payment, IsUnit))

\* the open rows of a person whatever the pool
OpenBorrowingsAnyPool(tx, personId, poolType) ==
  LET IsOpen(b) == b.person_id = personId /\ b.status = "OPEN"
  IN RowIds(tx.borrowing, IsOpen)

\* SELECT ... FROM borrowing WHERE person_id = ? AND status = "OPEN" AND pool_type = ?
OpenBorrowings(tx, personId, poolType) ==
  LET IsOpen(b) == b.person_id = personId /\ b.status = "OPEN" /\ b.pool_type = poolType
  IN RowIds(tx.borrowing, IsOpen)

\* a limit taken from the main savings whatever the pool
AllowedLimitOfMain(tx, personId, poolType, tieUp) ==
  ToFixed2(tx.personal_balance[personId].main_savings_balance * 130, 100, tieUp)

\* the personal limit: 130% of the person's balance in the corresponding pool
AllowedLimit(tx, personId, poolType, tieUp) ==
  LET personal == tx.personal_balance[personId]
      personPoolBalance == IF poolType = "MAIN" THEN personal.main_savings_balance
                           ELSE personal.validity_savings_balance
  IN ToFixed2(personPoolBalance * BORROW_LIMIT_PCT, 100, tieUp)

\* eligibility checks that leave out the open debt
EligibilityErrorNoOpenDebt(tx, personId, poolType, amt, tieUp) ==
  IF SavedCount(tx, personId) < MIN_SAVED_COUNT THEN "INSUFFICIENT_SAVED_COUNT"
  ELSE IF amt > AllowedLimit(tx, personId, poolType, tieUp) THEN "LIMIT_EXCEEDED"
  ELSE ""

\* the three eligibility checks an admin override skips, in the handler's order
EligibilityError(tx, personId, poolType, amt, tieUp) ==
  IF SavedCount(tx, personId) < MIN_SAVED_COUNT THEN "INSUFFICIENT_SAVED_COUNT"
  ELSE IF OpenBorrowings(tx, personId, poolType) # {} THEN "OPEN_DEBT_EXISTS"
  ELSE IF amt > AllowedLimit(tx, personId, poolType, tieUp) THEN "LIMIT_EXCEEDED"
  ELSE ""

\* a funds check that also refuses the whole balance
InsufficientGroupFundsAtBalance(tx, poolType, amt) == amt >= tx.group_pool[poolType]

\* the group funds check, always made
InsufficientGroupFunds(tx, poolType, amt) == amt > tx.group_pool[poolType]

\* the interest of a new borrowing
Profit(amt, tieUp) == ToFixed2(amt * BORROW_INTEREST_PCT, 100, tieUp)

PeriodDays(poolType) ==
  IF poolType = "MAIN" THEN MAIN_PERIOD_DAYS ELSE VALIDITY_PERIOD_DAYS

\* a debit of the principal and the interest
BorrowDebitWithProfit(amt, profit) == amt + profit

\* UPDATE group_pool SET balance = balance - ? : the pool pays out the principal
BorrowDebit(amt, profit) == amt

\* the borrowing row, the pool debit, the BORROW log row, the commit, the response
BorrowGrant(tx, today, personId, poolType, amt, isAdminOverride, tieUp) ==
  LET profit == Profit(amt, tieUp)
      outstanding == amt + profit
      dueDate == dateAddDays(today, PeriodDays(poolType))
      borrowingId == Len(tx.borrowing) + 1
      t1 == [tx EXCEPT !.borrowing = Append(@,
               [person_id |-> personId, pool_type |-> poolType, principal |-> amt,
                initial_profit_amount |-> profit, outstanding_amount |-> outstanding,
                status |-> "OPEN", due_date |-> dueDate,
                last_payment_at |-> Null, last_penalty_applied_at |-> Null])]
      t2 == AddGroupPool(t1, poolType, 0 - BorrowDebit(amt, profit))
      resultGroupBalance == t2.group_pool[poolType]
      t3 == InsertLog(t2, Some(personId), "BORROW",
                      [poolType |-> poolType, principal |-> amt, profit |-> profit,
                       borrowingId |-> borrowingId, adminOverride |-> isAdminOverride],
                      amt, Null, Null,
                      IF poolType = "MAIN" THEN Some(resultGroupBalance) ELSE Null,
                      IF poolType = "VALIDITY" THEN Some(resultGroupBalance) ELSE Null)
  IN Reply(t3, "borrow", 200, "",
           [borrowingId |-> borrowingId, outstanding |-> outstanding,
            dueDate |-> dueDate, adminOverride |-> isAdminOverride])

\* a credential check that only asks for some password
BadCredentialOnlyMissing(adminPassword) == adminPassword = ""

\* !adminPassword || adminPassword !== ADMIN_PW
BadCredential(adminPassword) == adminPassword = "" \/ adminPassword # ADMIN_PASSWORD

borrow(db, today, personId, poolType, amt, adminOverride, adminPassword, tieUp) ==
  LET badPassword == BadCredential(adminPassword)
      isAdminOverride == adminOverride
      eligibility == IF isAdminOverride THEN ""
                     ELSE EligibilityError(db, personId, poolType, amt, tieUp)
  IN IF poolType \notin PoolTypes
     THEN Reply(db, "borrow", 400, "INVALID_POOL_TYPE", NoBody)
     ELSE IF amt <= 0
     THEN Reply(db, "borrow", 400, "INVALID_AMOUNT", NoBody)
     ELSE IF personId \notin DOMAIN db.personal_balance
     THEN Reply(db, "borrow", 400, "NO_PERSONAL_BALANCE", NoBody)
     ELSE IF adminOverride /\ badPassword
     THEN Reply(db, "borrow", 403, "BAD_CREDENTIAL", NoBody)
     ELSE IF eligibility # ""
     THEN Reply(db, "borrow", 400, eligibility, NoBody)
     ELSE IF InsufficientGroupFunds(db, poolType, amt)
     THEN Reply(db, "borrow", 400, "INSUFFICIENT_GROUP_FUNDS", NoBody)
     ELSE BorrowGrant(db, today, personId, poolType, amt, isAdminOverride, tieUp)

\* a repayment that never closes the borrowing
RepayStatusOpen(newOutstanding) == "OPEN"

\* the status of a borrowing after a repayment
RepayStatus(newOutstanding) == IF newOutstanding = 0 THEN "PAID" ELSE "OPEN"

\* the borrowing update, the pool credit, the DEBT_PAYMENT row, the REPAYMENT log row
RepayApply(tx, today, personId, borrowingId, amt, details) ==
  LET b == tx.borrowing[borrowingId]
      newOutstanding == b.outstanding_amount - amt
      newStatus == RepayStatus(newOutstanding)
      t1 == [tx EXCEPT !.borrowing[borrowingId].outstanding_amount = newOutstanding,
                       !.borrowing[borrowingId].status = newStatus,
                       !.borrowing[borrowingId].last_payment_at = Some(today)]
      t2 == AddGroupPool(t1, b.pool_type, amt)
      t3 == InsertDebtPayment(t2, personId, amt, borrowingId)
      gpBalance == t3.group_pool[b.pool_type]
  IN InsertLog(t3, Some(personId), "REPAYMENT", details, amt, Null, Null,
               IF b.pool_type = "MAIN" THEN Some(gpBalance) ELSE Null,
               IF b.pool_type = "VALIDITY" THEN Some(gpBalance) ELSE Null)

\* no overpayment check
OverpaymentNever(amt, outstanding) == FALSE

\* a payment above the outstanding amount is refused
Overpayment(amt, outstanding) == amt > outstanding

repay(db, today, personId, borrowingId, amt) ==
  IF amt <= 0
  THEN Reply(db, "repay", 400, "INVALID_AMOUNT", NoBody)
  ELSE IF borrowingId \notin 1 .. Len(db.borrowing) \/ db.borrowing[borrowingId] = NoRow
  THEN Reply(db, "repay", 404, "NOT_FOUND", NoBody)
  ELSE IF db.borrowing[borrowingId].person_id # personId
  THEN Reply(db, "repay", 403, "NOT_OWNER", NoBody)
  ELSE IF db.borrowing[borrowingId].status # "OPEN"
  THEN Reply(db, "repay", 400, "NOT_OPEN", NoBody)
  ELSE IF Overpayment(amt, db.borrowing[borrowingId].outstanding_amount)
  THEN Reply(db, "repay", 400, "OVERPAYMENT",
             [outstandingAmount |-> db.borrowing[borrowingId].outstanding_amount])
  ELSE LET t1 == RepayApply(db, today, personId, borrowingId, amt,
                            [borrowingId |-> borrowingId, partialPayment |-> amt])
       IN Reply(t1, "repay", 200, "",
                [newOutstanding |-> t1.borrowing[borrowingId].outstanding_amount,
                 status |-> t1.borrowing[borrowingId].status])

\* a pay-full that pays the principal and leaves the interest outstanding
PayFullApplyPrincipal(tx, today, personId, borrowingId) ==
  RepayApply(tx, today, personId, borrowingId, tx.borrowing[borrowingId].principal,
             [borrowingId |-> borrowingId, fullPay |-> TRUE])

\* UPDATE borrowing SET outstanding_amount = 0, status = "PAID" and the credit of
\* what was outstanding
PayFullApply(tx, today, personId, borrowingId) ==
  LET outstanding == tx.borrowing[borrowingId].outstanding_amount
      poolType == tx.borrowing[borrowingId].pool_type
      t1 == [tx EXCEPT !.borrowing[borrowingId].outstanding_amount = 0,
                       !.borrowing[borrowingId].status = "PAID",
                       !.borrowing[borrowingId].last_payment_at = Some(today)]
      t2 == AddGroupPool(t1, poolType, outstanding)
      t3 == InsertDebtPayment(t2, personId, outstanding, borrowingId)
      gpBalance == t3.group_pool[poolType]
  IN InsertLog(t3, Some(personId), "REPAYMENT",
               [borrowingId |-> borrowingId, fullPay |-> TRUE], outstanding, Null, Null,
               IF poolType = "MAIN" THEN Some(gpBalance) ELSE Null,
               IF poolType = "VALIDITY" THEN Some(gpBalance) ELSE Null)

\* rows[0] of SELECT ... WHERE status = "OPEN" FOR UPDATE: the statement has no
\* ORDER BY, so any of the open rows may come first
payFull(db, today, personId, poolType, first) ==
  IF poolType \notin PoolTypes
  THEN Reply(db, "payFull", 400, "INVALID_POOL_TYPE", NoBody)
  ELSE IF OpenBorrowings(db, personId, poolType) = {}
  THEN Reply(db, "payFull", 404, "NOT_FOUND", NoBody)
  ELSE Reply(PayFullApply(db, today, personId, first), "payFull", 200, "",
             [borrowingId |-> first,
              paidAmount |-> db.borrowing[first].outstanding_amount])

----------------------------------------------------------------------------
(* penalty sweeps: runPenalties of the unnamed controller and of adminController *)

\* full periods counted from the due date, whatever was applied since
FullPeriodsSinceDue(b, today, periodDays) ==
  IF today <= b.due_date THEN 0 ELSE (today - b.due_date) \div periodDays

\* full periods since the later of the due date and the last penalty; 0 if not overdue
FullPeriods(b, today, periodDays) ==
  LET lastApplied == IF b.last_penalty_applied_at = Null THEN b.due_date
                     ELSE b.last_penalty_applied_at[1]
      daysSince == today - lastApplied
  IN IF today <= b.due_date \/ daysSince < 0 THEN 0 ELSE daysSince \div periodDays

\* the penalty rate 1.10 as a fraction
RATE_NUM == 11
RATE_DEN == 10

\* v * 1.10 for the amount v = int + frac / den cents, exactly (den grows tenfold)
TimesRate(v) ==
  LET whole == RATE_NUM * v.int
      n == (whole % RATE_DEN) * v.den + RATE_NUM * v.frac
      den == RATE_DEN * v.den
  IN [int |-> (whole \div RATE_DEN) + (n \div den), frac |-> n % den, den |-> den]

\* v * 1.10 ^ periods, exactly
RECURSIVE Grow(_, _)
Grow(v, periods) == IF periods = 0 THEN v ELSE Grow(TimesRate(v), periods - 1)

\* origOutstanding * Math.pow(1.10, fullPeriods), rounded once
CompoundOnce(origOutstanding, fullPeriods, tieUp) ==
  LET v == Grow([int |-> origOutstanding, frac |-> 0, den |-> 1], fullPeriods)
  IN v.int + ToFixed2(v.frac, v.den, tieUp)

\* origOutstanding * 1.10, rounded, period after period
RECURSIVE CompoundEach(_, _, _)
CompoundEach(outstanding, periods, tieUp) ==
  IF periods = 0 THEN outstanding
  ELSE CompoundEach(ToFixed2(outstanding * RATE_NUM, RATE_DEN, tieUp),
                    periods - 1, tieUp)

\* UPDATE borrowing SET outstanding_amount, last_penalty_applied_at and the PENALTY log row
PenaltyApply(tx, today, id, newOutstanding, details) ==
  LET b == tx.borrowing[id]
      t1 == [tx EXCEPT !.borrowing[id].outstanding_amount = newOutstanding,
                       !.borrowing[id].last_penalty_applied_at = Some(today)]
  IN InsertLog(t1, Some(b.person_id), "PENALTY", details,
               newOutstanding - b.outstanding_amount, Null, Null, Null, Null)

\* the sweep of the unnamed controller over the open rows from id on
RECURSIVE SweepFrom(_, _, _, _)
SweepFrom(tx, today, id, tieUp) ==
  IF id > Len(tx.borrowing) THEN tx
  ELSE LET b == tx.borrowing[id]
           fullPeriods == FullPeriods(b, today, PeriodDays(b.pool_type))
       IN IF b.status # "OPEN" \/ fullPeriods <= 0
          THEN SweepFrom(tx, today, id + 1, tieUp)
          ELSE SweepFrom(
                 PenaltyApply(tx, today, id,
                              CompoundOnce(b.outstanding_amount, fullPeriods, tieUp),
                              [borrowingId |-> id, periods |-> fullPeriods]),
                 today, id + 1, tieUp)

runPenalties(db, today, tieUp) ==
  Reply(SweepFrom(db, today, 1, tieUp), "runPenalties", 200, "", NoBody)

\* the sweep of adminController over the open rows from id on: every pool has
\* periods of 30 days, and the amount is rounded after each period
RECURSIVE AdminSweepFrom(_, _, _, _)
AdminSweepFrom(tx, today, id, tieUp) ==
  IF id > Len(tx.borrowing) THEN tx
  ELSE LET b == tx.borrowing[id]
           periods == FullPeriods(b, today, MAIN_PERIOD_DAYS)
       IN IF b.status # "OPEN" \/ periods <= 0
          THEN AdminSweepFrom(tx, today, id + 1, tieUp)
          ELSE AdminSweepFrom(
                 PenaltyApply(tx, today, id,
                              CompoundEach(b.outstanding_amount, periods, tieUp),
                              [borrowing_id |-> id, periods |-> periods]),
                 today, id + 1, tieUp)

adminRunPenalties(db, today, tieUp) ==
  Reply(AdminSweepFrom(db, today, 1, tieUp), "adminRunPenalties", 200, "", NoBody)

----------------------------------------------------------------------------
(* adminController: deleteMember, resetAll.  A request names the statements that *)
(* the store fails (failing): the handlers catch some of these errors and go on. *)

\* DELETE FROM tbl WHERE person_id = ?
DeleteDependent(tx, tbl, personId) ==
  LET NotTheirs(r) == r.person_id # personId
      NotTheirLog(r) == r.person_id # Some(personId)
  IN CASE tbl = "transaction_log" ->
            [tx EXCEPT !.transaction_log = SelectSeq(@, NotTheirLog)]
       [] tbl = "payment" -> [tx EXCEPT !.payment = SelectSeq(@, NotTheirs)]
       [] tbl = "borrowing" ->
            [tx EXCEPT !.borrowing =
               [i \in DOMAIN @ |-> IF @[i].person_id = personId THEN NoRow ELSE @[i]]]
       [] tbl = "daily_summary" ->
            [tx EXCEPT !.daily_summary =
               [k \in {k \in DOMAIN @ : k[1] # personId} |-> @[k]]]
       [] tbl = "personal_balance" ->
            [tx EXCEPT !.personal_balance = [q \in DOMAIN @ \ {personId} |-> @[q]]]

\* the dependent tables, in the order they are cleaned
dependentDeletes ==
  <<"transaction_log", "payment", "borrowing", "daily_summary", "personal_balance">>

\* the loop over the first n dependent tables: a DELETE that fails is logged and
\* the loop goes on
RECURSIVE DeleteDependents(_, _, _, _)
DeleteDependents(tx, personId, failing, n) ==
  IF n = 0 THEN tx
  ELSE LET t1 == DeleteDependents(tx, personId, failing, n - 1)
       IN IF dependentDeletes[n] \in failing THEN t1
          ELSE DeleteDependent(t1, dependentDeletes[n], personId)

deleteMember(db, person_id, password, failing) ==
  LET t1 == DeleteDependents(db, person_id, failing, Len(dependentDeletes))
      t2 == [t1 EXCEPT !.person = @ \ {person_id}]
      t3 == IF "insert_log" \in failing THEN t2
            ELSE InsertLog(t2, Null, "ADMIN_DELETE_MEMBER",
                           [deleted_person_id |-> person_id, by |-> "admin"],
                           0, Null, Null, Null, Null)
  IN IF password = "" \/ password # ADMIN_PASSWORD
     THEN Reply(db, "deleteMember", 403, "BAD_CREDENTIAL", NoBody)
     ELSE IF person_id = 0
     THEN Reply(db, "deleteMember", 400, "MISSING_ID", NoBody)
     ELSE IF person_id \notin db.person
     THEN Reply(db, "deleteMember", 404, "NOT_FOUND", NoBody)
     ELSE IF "person" \in failing \/ "commit" \in failing
     THEN Reply(db, "deleteMember", 500, "DB_ERROR", NoBody)
     ELSE Reply(t3, "deleteMember", 200, "", [person_id |-> person_id])

\* TRUNCATE TABLE tbl: no row is left and the ids start again
Truncate(tx, tbl) ==
  CASE tbl = "transaction_log" -> [tx EXCEPT !.transaction_log = <<>>]
    [] tbl = "borrowing" -> [tx EXCEPT !.borrowing = <<>>]
    [] tbl = "payment" -> [tx EXCEPT !.payment = <<>>]
    [] tbl = "daily_summary" -> [tx EXCEPT !.daily_summary = <<>>]

\* DELETE FROM tbl: no row is left and the ids go on
DeleteAll(tx, tbl) ==
  IF tbl = "borrowing"
  THEN [tx EXCEPT !.borrowing = [i \in DOMAIN @ |-> NoRow]]
  ELSE Truncate(tx, tbl)

\* the tables resetAll clears, in its order
resetTables == <<"transaction_log", "borrowing", "payment", "daily_summary">>

\* try TRUNCATE, catch DELETE, for the first n tables; Null when a DELETE failed too
RECURSIVE ClearTables(_, _, _)
ClearTables(tx, failing, n) ==
  IF n = 0 THEN Some(tx)
  ELSE LET before == ClearTables(tx, failing, n - 1)
           tbl == resetTables[n]
       IN IF before = Null THEN Null
          ELSE IF <<"truncate", tbl>> \notin failing THEN Some(Truncate(before[1], tbl))
          ELSE IF <<"delete", tbl>> \notin failing THEN Some(DeleteAll(before[1], tbl))
          ELSE Null

\* UPDATE personal_balance SET ... = 0 and UPDATE group_pool SET balance = 0, each
\* in a try whose catch ignores the error
ResetBalances(tx, failing) ==
  LET t1 == IF <<"update", "personal_balance">> \in failing THEN tx
            ELSE [tx EXCEPT !.personal_balance =
                    [q \in DOMAIN @ |->
                       [main_savings_balance |-> 0, validity_savings_balance |-> 0]]]
  IN IF <<"update", "group_pool">> \in failing THEN t1
     ELSE [t1 EXCEPT !.group_pool = [t \in DOMAIN @ |-> 0]]

resetAll(db, password, failing) ==
  LET cleared == ClearTables(db, failing, Len(resetTables))
      zeroed == ResetBalances(cleared[1], failing)
      t3 == IF <<"insert", "transaction_log">> \in failing THEN zeroed
            ELSE InsertLog(zeroed, Null, "ADMIN_RESET", [reset_by |-> "admin"],
                           0, Null, Null, Null, Null)
  IN IF password = "" \/ password # ADMIN_PASSWORD
     THEN Reply(db, "resetAll", 403, "BAD_CREDENTIAL", NoBody)
     ELSE IF cleared = Null \/ <<"commit", "transaction">> \in failing
     THEN Reply(db, "resetAll", 500, "DB_ERROR", NoBody)
     ELSE Reply(t3, "resetAll", 200, "", NoBody)

\* SELECT SUM(units_count) FROM daily_summary, over the rows with the keys ks
RECURSIVE SumUnits(_, _)
SumUnits(daily, ks) ==
  IF ks = {} THEN 0
  ELSE LET k == CHOOSE x \in ks : TRUE
       IN daily[k].units_count + SumUnits(daily, ks \ {k})

\* the balance of the MAIN pool alone
TotalSavingsOfMain(db) == db.group_pool["MAIN"]

\* for (const p of pools) total_savings += parseFloat(p.balance)
TotalSavings(db) == db.group_pool["MAIN"] + db.group_pool["VALIDITY"]

getShare(db, tieUp) ==
  LET total_savings == TotalSavings(db)
      total_units == SumUnits(db.daily_summary, DOMAIN db.daily_summary)
      share_per_unit == IF total_units # 0
                        THEN ToFixed2(total_savings, total_units, tieUp) ELSE 0
  IN Reply(db, "getShare", 200, "",
           [total_savings |-> total_savings, total_units |-> total_units,
            share_per_unit |-> share_per_unit])

----------------------------------------------------------------------------
(* The statements of a handler, one after another: what its transaction holds    *)
(* before any of them and after each, and what its catch block does of an error. *)

Last(s) == s[Len(s)]

\* the three statements of the validity fee, from tx
ValidityWrites(tx, personId, date) ==
  LET t1 == AddValiditySavings(tx, personId, VALIDITY_FEE)
      t2 == InsertPayment(t1, personId, "VALIDITY", VALIDITY_FEE, date)
  IN <<t1, t2, AddGroupPool(t2, "VALIDITY", VALIDITY_FEE)>>

\* the three statements of the units, from tx
UnitsWrites(tx, personId, units, date) ==
  LET t1 == AddMainSavings(tx, personId, units * UNIT_PRICE)
      t2 == InsertPayment(t1, personId, "UNIT", units * UNIT_PRICE, date)
  IN <<t1, t2, AddGroupPool(t2, "MAIN", units * UNIT_PRICE)>>

\* the three statements of the fine, from tx
FineWrites(tx, personId, date, fineToCharge) ==
  LET t1 == AddGroupPool(tx, "MAIN", fineToCharge)
  IN <<t1, InsertPayment(t1, personId, "FINE", fineToCharge, date),
       ChargeFine(tx, personId, date, fineToCharge)>>

\* the INSERT of a personal_balance row, if there is none
EnsureWrites(db, personId) ==
  IF personId \in DOMAIN db.personal_balance THEN <<>>
  ELSE <<InsertPersonalBalance(db, personId)>>

\* the last INSERT INTO transaction_log of a handler that answered out after writes
LogWrite(writes, out) ==
  IF out.res.status < 400 /\ out.db # Last(writes) THEN <<out.db>> ELSE <<>>

saveWrites(db, today, personId, units, payValidity, effectiveDate) ==
  LET date == IF effectiveDate = Null THEN today ELSE effectiveDate[1]
      k == <<personId, date>>
      s0 == <<db>> \o EnsureWrites(db, personId)
      n1 == s0 \o <<InsertDaily(Last(s0), personId, date, payValidity, units, 0)>>
      n2 == IF payValidity THEN n1 \o ValidityWrites(Last(n1), personId, date) ELSE n1
      n3 == IF units > 0 THEN n2 \o UnitsWrites(Last(n2), personId, units, date) ELSE n2
      daily == db.daily_summary[k]
      paid == [Last(s0) EXCEPT !.daily_summary[k].validity_paid = TRUE]
      e1 == IF SaveChargesValidity(payValidity, daily)
            THEN (s0 \o <<paid>>) \o ValidityWrites(paid, personId, date)
            ELSE s0
      counted == [Last(e1) EXCEPT !.daily_summary[k].units_count = @ + units]
      e2 == IF units > 0 /\ daily.units_count + units <= DAILY_CAP
            THEN (e1 \o <<counted>>) \o UnitsWrites(counted, personId, units, date)
            ELSE e1
      writes == IF k \notin DOMAIN db.daily_summary THEN n3 ELSE e2
  IN writes \o LogWrite(writes,
                 saveUnitsAndValidity(db, today, personId, units, payValidity,
                                      effectiveDate))

retroWrites(db, today, personId, dateArg, addUnits, payValidityIfMissing) ==
  LET date == dateArg[1]
      k == <<personId, date>>
      fineToCharge == FineFor(addUnits)
      s0 == <<db>> \o EnsureWrites(db, personId)
      n1 == s0 \o <<InsertDaily(Last(s0), personId, date, payValidityIfMissing,
                                addUnits, fineToCharge)>>
      n2 == IF payValidityIfMissing
            THEN n1 \o ValidityWrites(Last(n1), personId, date) ELSE n1
      n3 == IF addUnits > 0
            THEN n2 \o UnitsWrites(Last(n2), personId, addUnits, date) ELSE n2
      daily == db.daily_summary[k]
      e1 == s0 \o <<[Last(s0) EXCEPT !.daily_summary[k].units_count = @ + addUnits,
                                     !.daily_summary[k].fine_amount = @ + fineToCharge]>>
      paid == [Last(e1) EXCEPT !.daily_summary[k].validity_paid = TRUE]
      e2 == IF RetroChargesValidity(payValidityIfMissing, daily)
            THEN (e1 \o <<paid>>) \o ValidityWrites(paid, personId, date)
            ELSE e1
      e3 == IF addUnits > 0
            THEN e2 \o UnitsWrites(Last(e2), personId, addUnits, date) ELSE e2
      applied == IF k \notin DOMAIN db.daily_summary THEN n3
                 ELSE IF RetroCapExceeded(daily, addUnits) THEN s0
                 ELSE e3
      out == retroactiveFill(db, today, personId, dateArg, addUnits,
                             payValidityIfMissing)
      writes == IF fineToCharge > 0 /\ out.res.status < 400
                THEN applied \o FineWrites(Last(applied), personId, date, fineToCharge)
                ELSE applied
  IN writes \o LogWrite(writes, out)

\* db with the tables tbls as the handler leaves them in the end
Adopt(db, to, tbls) ==
  [person |-> db.person,
   personal_balance |-> db.personal_balance,
   group_pool |-> IF "group_pool" \in tbls THEN to.group_pool ELSE db.group_pool,
   borrowing |-> IF "borrowing" \in tbls THEN to.borrowing ELSE db.borrowing,
   payment |-> IF "payment" \in tbls THEN to.payment ELSE db.payment,
   daily_summary |-> db.daily_summary,
   transaction_log |-> IF "transaction_log" \in tbls THEN to.transaction_log
                       ELSE db.transaction_log]

\* the tables a granted borrow writes, one statement each, in its order
borrowTables == <<"borrowing", "group_pool", "transaction_log">>

\* the tables a granted repay or payFull writes, one statement each, in its order
repayTables == <<"borrowing", "group_pool", "payment", "transaction_log">>

\* a handler that answered out and writes the tables of order, one statement each
TableWrites(db, out, order) ==
  IF out.res.status >= 400 THEN <<db>>
  ELSE [n \in 1 .. Len(order) + 1 |->
          Adopt(db, out.db, {order[i] : i \in 1 .. n - 1})]

\* a sweep that answered out: for each row it penalized, in the order of the ids,
\* the UPDATE of the row and then the INSERT of its PENALTY log row
SweepWrites(db, out) ==
  LET penalized == {i \in 1 .. Len(db.borrowing) : out.db.borrowing[i] # db.borrowing[i]}
      FirstOf(r) == {i \in penalized : Cardinality({j \in penalized : j <= i}) <= r}
  IN [n \in 1 .. 2 * Cardinality(penalized) + 1 |->
        [db EXCEPT !.borrowing =
                     [i \in DOMAIN @ |-> IF i \in FirstOf(n \div 2)
                                         THEN out.db.borrowing[i] ELSE @[i]],
                   !.transaction_log =
                     SubSeq(out.db.transaction_log, 1, Len(@) + (n - 1) \div 2)]]

\* a catch block that answers without conn.rollback(): what was written stays
StoreErrorNoRollback(db, tx, op) ==
  Reply(tx, op, 500, "DB_ERROR", NoBody)

\* catch (err) { await conn.rollback(); res.status(500) }: the transaction that
\* held tx is rolled back to db
StoreError(db, tx, op) ==
  Reply(db, op, 500, "DB_ERROR", NoBody)

----------------------------------------------------------------------------
(* The state machine *)

\* the database as the schema seeds it: no members, both pools empty
FreshDB ==
  [person |-> {}, personal_balance |-> <<>>, group_pool |-> [t \in PoolTypes |-> 0],
   borrowing |-> <<>>, payment |-> <<>>, daily_summary |-> <<>>,
   transaction_log |-> <<>>]

\* before the first request: nothing asked, nothing answered
NoRequest == [op |-> "none"]
NoResponse == [op |-> "none", status |-> 0, error |-> "", body |-> NoBody]

\* no transaction is open on any connection: the handlers are called one after another
NoTxns == <<>>

\* the tables hold db
Holds(db) ==
  /\ person = db.person
  /\ personal_balance = db.personal_balance
  /\ group_pool = db.group_pool
  /\ borrowing = db.borrowing
  /\ payment = db.payment
  /\ daily_summary = db.daily_summary
  /\ transaction_log = db.transaction_log

\* the handler serves req: its transaction commits out.db and its response is sent
Answer(req, out) ==
  /\ request' = req
  /\ person' = out.db.person
  /\ personal_balance' = out.db.personal_balance
  /\ group_pool' = out.db.group_pool
  /\ borrowing' = out.db.borrowing
  /\ payment' = out.db.payment
  /\ daily_summary' = out.db.daily_summary
  /\ transaction_log' = out.db.transaction_log
  /\ response' = out.res
  /\ now' = now
  /\ txn' = txn

\* a request of a run that does not count its requests
Commit(req, out) == Answer(req, out) /\ served' = served

\* a request of a run that counts them
Serve(req, out) == Answer(req, out) /\ served' = served + 1

\* A run goes on from a request that was granted.  A refused request ends it: the
\* request leaves the tables of the state it was made in, and the run goes on from
\* that state as well.
Granted == response.status < 400

----------------------------------------------------------------------------
(* The savings runs start with two members created, on StartDay *)

\* the database after createMember was called for members 1 and 2
MembersDB ==
  createMember(createMember(FreshDB, "first", ADMIN_PASSWORD).db, "second",
               ADMIN_PASSWORD).db

Init ==
  /\ Holds(MembersDB) /\ now = StartDay /\ request = NoRequest /\ response = NoResponse
  /\ served = 0 /\ txn = NoTxns

\* a savings run calls handlers while the log has grown by fewer than MaxSaves rows
Room == Granted /\ Len(transaction_log) < Len(MembersDB.transaction_log) + MaxSaves

\* dates a request may name: the days before today
PastDates == (StartDay - 1) .. (now - 1)

\* units a request may name: none, one, and most of a day's cap
UnitsAsked == {0, 1, 3}

SaveUnits ==
  /\ Room
  /\ \E personId \in person, units \in UnitsAsked, payValidity \in BOOLEAN,
        effectiveDate \in {Null} \cup {Some(d) : d \in PastDates} :
       Commit([op |-> "save", personId |-> personId, units |-> units,
               payValidity |-> payValidity, effectiveDate |-> effectiveDate],
              saveUnitsAndValidity(DB, now, personId, units, payValidity, effectiveDate))

RetroactiveFill ==
  /\ Room
  /\ \E personId \in person, addUnits \in UnitsAsked, payValidityIfMissing \in BOOLEAN,
        dateArg \in {Some(d) : d \in PastDates} :
       Commit([op |-> "retroactive", personId |-> personId, date |-> dateArg,
               addUnits |-> addUnits, payValidityIfMissing |-> payValidityIfMissing],
              retroactiveFill(DB, now, personId, dateArg, addUnits, payValidityIfMissing))

NextSave == SaveUnits \/ RetroactiveFill

SpecSave == Init /\ [][NextSave]_vars

----------------------------------------------------------------------------
(* The borrowing runs start from a funded ledger: the database after member 1     *)
(* saved a unit three times on StartDay (the fee once) and member 2 saved four     *)
(* units and the fee, and three units for the day before.                          *)

RECURSIVE SaveTimes(_, _, _)
SaveTimes(db, personId, times) ==
  IF times = 0 THEN db
  ELSE SaveTimes(saveUnitsAndValidity(db, StartDay, personId, 1, TRUE, Null).db,
                 personId, times - 1)

FundedDB ==
  LET d1 == SaveTimes(MembersDB, 1, MIN_SAVED_COUNT)
      d2 == saveUnitsAndValidity(d1, StartDay, 2, 4, TRUE, Null).db
  IN saveUnitsAndValidity(d2, StartDay, 2, 3, FALSE, Some(StartDay - 1)).db

InitFunded ==
  /\ Holds(FundedDB) /\ now = StartDay /\ request = NoRequest /\ response = NoResponse
  /\ served = 0 /\ txn = NoTxns

\* a borrowing run calls handlers while the log has grown by fewer than MaxSteps rows
RoomBorrow ==
  Granted /\ Len(transaction_log) < Len(FundedDB.transaction_log) + MaxSteps

\* a part of a debt a request may name
PartAmount == 10000

\* the amount of the worked example: 1300.00
ExampleAmount == 1300 * 100

\* what a borrow request may carry: without override the amounts at and just above
\* the person's limit and the amount of the example, with a valid override the amounts at and just above the pool's
\* balance, and an override with a wrong password
BorrowRequests(personId, poolType) ==
  LET limit == AllowedLimit(DB, personId, poolType, TRUE)
      funds == group_pool[poolType]
  IN {[amt |-> a, adminOverride |-> FALSE, adminPassword |-> ""] :
        a \in {limit, limit + 1, ExampleAmount}}
       \cup {[amt |-> a, adminOverride |-> TRUE, adminPassword |-> ADMIN_PASSWORD] :
               a \in {funds, funds + 1}}
       \cup {[amt |-> limit, adminOverride |-> TRUE, adminPassword |-> "guess"]}

\* the roundings that can come out of +(x / den).toFixed(2)
Ties(x, den) == IF 2 * (x % den) = den THEN BOOLEAN ELSE {TRUE}

Borrow ==
  /\ RoomBorrow
  /\ \E personId \in person, poolType \in PoolTypes :
       \E r \in BorrowRequests(personId, poolType) :
         \E tieUp \in Ties(r.amt * BORROW_INTEREST_PCT, 100) :
           Commit([op |-> "borrow", personId |-> personId, poolType |-> poolType,
                   amount |-> r.amt, adminOverride |-> r.adminOverride,
                   adminPassword |-> r.adminPassword],
                  borrow(DB, now, personId, poolType, r.amt, r.adminOverride,
                         r.adminPassword, tieUp))

\* what a repay request may carry: the owner of a borrowing names a part and the
\* amounts at and just above what is outstanding, another member names a part, and
\* member 1 names a borrowing that does not exist
RepayRequests ==
  UNION {{[personId |-> borrowing[i].person_id, borrowingId |-> i, amt |-> a] :
            a \in {PartAmount, borrowing[i].outstanding_amount,
                   borrowing[i].outstanding_amount + 1}} : i \in 1 .. Len(borrowing)}
    \cup {[personId |-> p, borrowingId |-> i, amt |-> PartAmount] :
            i \in 1 .. Len(borrowing), p \in person}
    \cup {[personId |-> 1, borrowingId |-> Len(borrowing) + 1, amt |-> PartAmount]}

Repay ==
  /\ RoomBorrow
  /\ \E r \in RepayRequests :
       LET personId == r.personId
           borrowingId == r.borrowingId
           amt == r.amt
       IN
         Commit([op |-> "repay", personId |-> personId, borrowingId |-> borrowingId,
                 amount |-> amt],
                repay(DB, now, personId, borrowingId, amt))

PayFull ==
  /\ RoomBorrow
  /\ \E personId \in person, poolType \in PoolTypes :
       \E first \in IF OpenBorrowings(DB, personId, poolType) # {}
                    THEN OpenBorrowings(DB, personId, poolType) ELSE {0} :
         Commit([op |-> "payFull", personId |-> personId, poolType |-> poolType],
                payFull(DB, now, personId, poolType, first))

RunPenalties ==
  /\ RoomBorrow
  /\ \E tieUp \in BOOLEAN :
       Commit([op |-> "runPenalties"], runPenalties(DB, now, tieUp))

AdminRunPenalties ==
  /\ RoomBorrow
  /\ \E tieUp \in BOOLEAN :
       Commit([op |-> "adminRunPenalties"], adminRunPenalties(DB, now, tieUp))

\* days the clock moves by
Ticks == {2 * MAIN_PERIOD_DAYS}

AdvanceTime ==
  /\ Granted
  /\ \E d \in Ticks : now + d <= MaxNow /\ now' = now + d
  /\ UNCHANGED <<tables, request, response, served, txn>>

NextBorrow ==
  \/ Borrow
  \/ Repay
  \/ PayFull
  \/ RunPenalties
  \/ AdminRunPenalties
  \/ AdvanceTime

SpecBorrow == InitFunded /\ [][NextBorrow]_vars

----------------------------------------------------------------------------
(* The ledger runs start from the funded ledger of the borrowing runs and call   *)
(* every handler that moves money, MaxServed requests in a row.                   *)

InitLedger ==
  /\ Holds(FundedDB) /\ now = StartDay /\ request = NoRequest /\ response = NoResponse
  /\ served = 0 /\ txn = NoTxns

\* a ledger run goes on from a granted request while it has served fewer than MaxServed
LedgerRoom == Granted /\ served < MaxServed

\* what a save request of a ledger run may carry: one unit or three, the fee asked
\* for, for today or for the day before
LedgerSaveRequests ==
  {[units |-> u, payValidity |-> TRUE, effectiveDate |-> e] :
     u \in {1, 3}, e \in {Null, Some(StartDay - 1)}}

LedgerSave ==
  /\ LedgerRoom
  /\ \E personId \in person, r \in LedgerSaveRequests :
       Serve([op |-> "save", personId |-> personId, units |-> r.units,
              payValidity |-> r.payValidity, effectiveDate |-> r.effectiveDate],
             saveUnitsAndValidity(DB, now, personId, r.units, r.payValidity,
                                  r.effectiveDate))

LedgerRetro ==
  /\ LedgerRoom
  /\ \E personId \in person, addUnits \in {0, 1} :
       Serve([op |-> "retroactive", personId |-> personId, date |-> Some(StartDay - 1),
              addUnits |-> addUnits, payValidityIfMissing |-> TRUE],
             retroactiveFill(DB, now, personId, Some(StartDay - 1), addUnits, TRUE))

\* what a borrow request of a ledger run may carry: the person's limit without
\* override, and a part under override with the password and with a guess
LedgerBorrowRequests(personId, poolType) ==
  {[amt |-> AllowedLimit(DB, personId, poolType, TRUE), adminOverride |-> FALSE,
    adminPassword |-> ""],
   [amt |-> PartAmount, adminOverride |-> TRUE, adminPassword |-> ADMIN_PASSWORD],
   [amt |-> PartAmount, adminOverride |-> TRUE, adminPassword |-> "guess"]}

LedgerBorrow ==
  /\ LedgerRoom
  /\ \E personId \in person, poolType \in PoolTypes :
       \E r \in LedgerBorrowRequests(personId, poolType) :
         \E tieUp \in Ties(r.amt * BORROW_INTEREST_PCT, 100) :
           Serve([op |-> "borrow", personId |-> personId, poolType |-> poolType,
                  amount |-> r.amt, adminOverride |-> r.adminOverride,
                  adminPassword |-> r.adminPassword],
                 borrow(DB, now, personId, poolType, r.amt, r.adminOverride,
                        r.adminPassword, tieUp))

\* what a repay request of a ledger run may carry: the owner of a borrowing names a
\* part, what is outstanding, and a cent more
LedgerRepayRequests ==
  UNION {{[personId |-> borrowing[i].person_id, borrowingId |-> i, amt |-> a] :
            a \in {PartAmount, borrowing[i].outstanding_amount,
                   borrowing[i].outstanding_amount + 1}} : i \in 1 .. Len(borrowing)}

LedgerRepay ==
  /\ LedgerRoom
  /\ \E r \in LedgerRepayRequests :
       Serve([op |-> "repay", personId |-> r.personId, borrowingId |-> r.borrowingId,
              amount |-> r.amt],
             repay(DB, now, r.personId, r.borrowingId, r.amt))

LedgerPayFull ==
  /\ LedgerRoom
  /\ \E personId \in person, poolType \in PoolTypes :
       \E first \in IF OpenBorrowings(DB, personId, poolType) # {}
                    THEN OpenBorrowings(DB, personId, poolType) ELSE {0} :
         Serve([op |-> "payFull", personId |-> personId, poolType |-> poolType],
               payFull(DB, now, personId, poolType, first))

LedgerRunPenalties ==
  /\ LedgerRoom
  /\ \E tieUp \in BOOLEAN :
       Serve([op |-> "runPenalties"], runPenalties(DB, now, tieUp))

LedgerAdminRunPenalties ==
  /\ LedgerRoom
  /\ \E tieUp \in BOOLEAN :
       Serve([op |-> "adminRunPenalties"], adminRunPenalties(DB, now, tieUp))

\* The store fails a statement of a handler: the statement that follows the first
\* failsAt - 1 writes of the trail (after the last write, the COMMIT).

LedgerSaveFails ==
  /\ LedgerRoom
  /\ \E personId \in person, r \in LedgerSaveRequests :
       LET writes == saveWrites(DB, now, personId, r.units, r.payValidity,
                                r.effectiveDate)
       IN \E failsAt \in 1 .. Len(writes) :
            Serve([op |-> "save", personId |-> personId, units |-> r.units,
                   payValidity |-> r.payValidity, effectiveDate |-> r.effectiveDate,
                   failsAt |-> failsAt],
                  StoreError(DB, writes[failsAt], "save"))

LedgerRetroFails ==
  /\ LedgerRoom
  /\ \E personId \in person, addUnits \in {0, 1} :
       LET writes == retroWrites(DB, now, personId, Some(StartDay - 1), addUnits, TRUE)
       IN \E failsAt \in 1 .. Len(writes) :
            Serve([op |-> "retroactive", personId |-> personId,
                   date |-> Some(StartDay - 1), addUnits |-> addUnits,
                   payValidityIfMissing |-> TRUE, failsAt |-> failsAt],
                  StoreError(DB, writes[failsAt], "retroactive"))

LedgerBorrowFails ==
  /\ LedgerRoom
  /\ \E personId \in person, poolType \in PoolTypes :
       \E r \in LedgerBorrowRequests(personId, poolType) :
         \E tieUp \in Ties(r.amt * BORROW_INTEREST_PCT, 100) :
           LET writes == TableWrites(DB, borrow(DB, now, personId, poolType, r.amt,
                                                r.adminOverride, r.adminPassword, tieUp),
                                     borrowTables)
           IN \E failsAt \in 1 .. Len(writes) :
                Serve([op |-> "borrow", personId |-> personId, poolType |-> poolType,
                       amount |-> r.amt, adminOverride |-> r.adminOverride,
                       adminPassword |-> r.adminPassword, failsAt |-> failsAt],
                      StoreError(DB, writes[failsAt], "borrow"))

LedgerRepayFails ==
  /\ LedgerRoom
  /\ \E r \in LedgerRepayRequests :
       LET writes == TableWrites(DB, repay(DB, now, r.personId, r.borrowingId, r.amt),
                                 repayTables)
       IN \E failsAt \in 1 .. Len(writes) :
            Serve([op |-> "repay", personId |-> r.personId,
                   borrowingId |-> r.borrowingId, amount |-> r.amt,
                   failsAt |-> failsAt],
                  StoreError(DB, writes[failsAt], "repay"))

LedgerPayFullFails ==
  /\ LedgerRoom
  /\ \E personId \in person, poolType \in PoolTypes :
       \E first \in IF OpenBorrowings(DB, personId, poolType) # {}
                    THEN OpenBorrowings(DB, personId, poolType) ELSE {0} :
         LET writes == TableWrites(DB, payFull(DB, now, personId, poolType, first),
                                   repayTables)
         IN \E failsAt \in 1 .. Len(writes) :
              Serve([op |-> "payFull", personId |-> personId, poolType |-> poolType,
                     failsAt |-> failsAt],
                    StoreError(DB, writes[failsAt], "payFull"))

LedgerRunPenaltiesFails ==
  /\ LedgerRoom
  /\ \E tieUp \in BOOLEAN :
       LET writes == SweepWrites(DB, runPenalties(DB, now, tieUp))
       IN \E failsAt \in 1 .. Len(writes) :
            Serve([op |-> "runPenalties", failsAt |-> failsAt],
                  StoreError(DB, writes[failsAt], "runPenalties"))

LedgerAdminRunPenaltiesFails ==
  /\ LedgerRoom
  /\ \E tieUp \in BOOLEAN :
       LET writes == SweepWrites(DB, adminRunPenalties(DB, now, tieUp))
       IN \E failsAt \in 1 .. Len(writes) :
            Serve([op |-> "adminRunPenalties", failsAt |-> failsAt],
                  StoreError(DB, writes[failsAt], "adminRunPenalties"))

\* ids a request may name that are no member's: none, and one never given
Strangers == {0, 3}

\* the statements of deleteMember that the store may fail
DeleteFailures == {{}, {"payment"}, {"person"}, {"insert_log"}}

\* what a deleteMember request may carry: a member and the password, whatever
\* fails; a member and a guess; an id that is no member's
DeleteRequests ==
  {[person_id |-> q, password |-> ADMIN_PASSWORD, failing |-> f] :
     q \in person, f \in DeleteFailures}
    \cup {[person_id |-> q, password |-> "guess", failing |-> {}] : q \in person}
    \cup {[person_id |-> q, password |-> ADMIN_PASSWORD, failing |-> {}] : q \in Strangers}

DeleteMember ==
  /\ LedgerRoom
  /\ \E r \in DeleteRequests :
       Serve([op |-> "deleteMember", person_id |-> r.person_id,
              password |-> r.password, failing |-> r.failing],
             deleteMember(DB, r.person_id, r.password, r.failing))

\* the statements of resetAll that the store may fail
ResetFailures ==
  {{}, {<<"truncate", "borrowing">>},
   {<<"truncate", "payment">>, <<"delete", "payment">>},
   {<<"update", "personal_balance">>}, {<<"update", "group_pool">>},
   {<<"insert", "transaction_log">>}, {<<"commit", "transaction">>}}

\* what a resetAll request may carry: the password, whatever fails, or none
ResetRequests ==
  {[password |-> ADMIN_PASSWORD, failing |-> f] : f \in ResetFailures}
    \cup {[password |-> "", failing |-> {}]}

ResetAll ==
  /\ LedgerRoom
  /\ \E r \in ResetRequests :
       Serve([op |-> "resetAll", password |-> r.password, failing |-> r.failing],
             resetAll(DB, r.password, r.failing))

GetShare ==
  /\ LedgerRoom
  /\ \E tieUp \in BOOLEAN :
       Serve([op |-> "getShare"], getShare(DB, tieUp))

NextLedger ==
  \/ LedgerSave
  \/ LedgerRetro
  \/ LedgerBorrow
  \/ LedgerRepay
  \/ LedgerPayFull
  \/ LedgerRunPenalties
  \/ LedgerAdminRunPenalties
  \/ LedgerSaveFails
  \/ LedgerRetroFails
  \/ LedgerBorrowFails
  \/ LedgerRepayFails
  \/ LedgerPayFullFails
  \/ LedgerRunPenaltiesFails
  \/ LedgerAdminRunPenaltiesFails
  \/ DeleteMember
  \/ ResetAll
  \/ GetShare
  \/ AdvanceTime

SpecLedger == InitLedger /\ [][NextLedger]_vars

----------------------------------------------------------------------------
(* The penalty runs start with two borrowings of member 1: 1000.00 from the MAIN  *)
(* pool granted on StartDay (outstanding 1100.00) and 1.02 from the VALIDITY     *)
(* pool granted four weeks later (outstanding 1.12), on the day the run starts.  *)
(* The clock moves a week at a time and either sweep may run on any of its days. *)

\* the principals of the two borrowings
MainLoan == 1000 * 100
ValidityLoan == 102

\* the day of the second borrowing, and the last day of a penalty run
SecondLoanDay == StartDay + 4 * VALIDITY_PERIOD_DAYS
LastSweepDay == StartDay + 14 * VALIDITY_PERIOD_DAYS

LoansDB ==
  LET d1 == borrow(FundedDB, StartDay, 1, "MAIN", MainLoan, FALSE, "", TRUE).db
  IN borrow(d1, SecondLoanDay, 1, "VALIDITY", ValidityLoan, FALSE, "", TRUE).db

InitLoans ==
  /\ Holds(LoansDB) /\ now = SecondLoanDay /\ request = NoRequest
  /\ response = NoResponse /\ served = 0 /\ txn = NoTxns

SweepRunPenalties ==
  /\ served < MaxSweeps
  /\ \E tieUp \in BOOLEAN :
       Serve([op |-> "runPenalties", at |-> now], runPenalties(DB, now, tieUp))

SweepAdminRunPenalties ==
  /\ served < MaxSweeps
  /\ \E tieUp \in BOOLEAN :
       Serve([op |-> "adminRunPenalties", at |-> now], adminRunPenalties(DB, now, tieUp))

WaitAWeek ==
  /\ now + VALIDITY_PERIOD_DAYS <= LastSweepDay
  /\ now' = now + VALIDITY_PERIOD_DAYS
  /\ UNCHANGED <<tables, request, response, served, txn>>

NextSweep == SweepRunPenalties \/ SweepAdminRunPenalties \/ WaitAWeek

SpecSweep == InitLoans /\ [][NextSweep]_vars

----------------------------------------------------------------------------
(* Properties of the savings handlers, checked under SpecSave *)

\* the (person, date) pairs that have a daily_summary row
Days == DOMAIN daily_summary

\* the VALIDITY payments of a person for a date
ValidityPayments(db, k) ==
  {i \in 1 .. Len(db.payment) :
     /\ db.payment[i].person_id = k[1]
     /\ db.payment[i].type = "VALIDITY"
     /\ db.payment[i].effective_date = Some(k[2])}

\* the days of a person whose fee is paid
PaidDays(personId) == {k \in Days : k[1] = personId /\ daily_summary[k].validity_paid}

\* the balances, the pools and the daily summaries
SavingsView(db) == <<db.personal_balance, db.group_pool, db.daily_summary>>

\* C1: every daily_summary row has a units_count within 0..4, and a saveUnits or
\* retroactiveFill call whose units would bring the count of its day above 4 is
\* refused with the cap error and leaves every table as it was, also when it asks
\* for a validity fee that is not yet paid for the day.
C1_DailyCap ==
  /\ \A k \in Days : daily_summary[k].units_count \in 0 .. 4
  /\ \A k \in Days, units \in 1 .. 4, payValidity \in BOOLEAN :
       daily_summary[k].units_count + units > 4 =>
         LET s == saveUnitsAndValidity(DB, now, k[1], units, payValidity, Some(k[2]))
             r == retroactiveFill(DB, now, k[1], Some(k[2]), units, payValidity)
         IN /\ s.res.status = 400 /\ s.res.error = "DAILY_CAP_EXCEEDED"
            /\ s.db = DB
            /\ k[2] < now =>
                 /\ r.res.status = 400 /\ r.res.error = "UNITS_CAP_EXCEEDED"
                 /\ r.db = DB

\* a save that asked for units above the cap and for a fee not yet paid was refused
C1_Witness ==
  /\ request.op = "save"
  /\ request.payValidity
  /\ response.error = "DAILY_CAP_EXCEEDED"
  /\ LET date == IF request.effectiveDate = Null THEN now ELSE request.effectiveDate[1]
     IN /\ ~daily_summary[<<request.personId, date>>].validity_paid
        /\ daily_summary[<<request.personId, date>>].units_count + request.units > 4

\* what a call that asks for the fee of a day whose fee is paid must answer and leave
FeeNotChargedAgain(out, k, body) ==
  /\ out.res.status = 200
  /\ body.appliedValidityAmount = 0
  /\ out.db.personal_balance[k[1]].validity_savings_balance
       = personal_balance[k[1]].validity_savings_balance
  /\ out.db.group_pool["VALIDITY"] = group_pool["VALIDITY"]
  /\ ValidityPayments(out.db, k) = ValidityPayments(DB, k)

\* C2: the validity fee of a person and date is charged exactly once.  A day has one
\* VALIDITY payment when its fee is paid and none otherwise, the validity balances
\* are VALIDITY_FEE for each paid day, and a saveUnits or retroactiveFill call that
\* asks for the fee of a day whose fee is paid is served with applied validity
\* amount 0 and changes no validity balance (a call the units cap refuses changes
\* nothing at all).
C2_ValidityOnce ==
  /\ \A k \in Days :
       Cardinality(ValidityPayments(DB, k)) = IF daily_summary[k].validity_paid THEN 1 ELSE 0
  /\ \A p \in person :
       personal_balance[p].validity_savings_balance = 10000 * Cardinality(PaidDays(p))
  /\ group_pool["VALIDITY"]
       = 10000 * Cardinality({k \in Days : daily_summary[k].validity_paid})
  /\ \A k \in Days, units \in 0 .. 4 :
       daily_summary[k].validity_paid =>
         LET s == saveUnitsAndValidity(DB, now, k[1], units, TRUE, Some(k[2]))
             r == retroactiveFill(DB, now, k[1], Some(k[2]), units, TRUE)
         IN IF daily_summary[k].units_count + units > 4
            THEN s.db = DB /\ r.db = DB
            ELSE /\ FeeNotChargedAgain(s, k, s.res.body)
                 /\ k[2] < now => FeeNotChargedAgain(r, k, r.res.body)

\* a retroactive fill asked for the fee of a day whose fee was paid, and was served
\* without charging it
C2_Witness ==
  /\ request.op = "retroactive"
  /\ request.payValidityIfMissing
  /\ response.status = 200
  /\ response.body.appliedValidityAmount = 0
  /\ Cardinality(ValidityPayments(DB, <<request.personId, request.date[1]>>)) = 1

\* the answer to the request just served, were it sent again
Retry ==
  saveUnitsAndValidity(DB, now, request.personId, request.units, request.payValidity,
                       request.effectiveDate)

\* a saveUnits request was just served
Saved == request.op = "save" /\ response.status = 200

\* C3 as stated: an identical saveUnits request sent again after the first one
\* committed leaves the balances, both pools and the daily summaries as the first
\* call left them, for every units in 0..4 and both values of payValidity.
C3_RetryIdempotent == Saved => SavingsView(Retry.db) = SavingsView(DB)

\* C3 as amended: an identical saveUnits request sent again leaves the balances, both
\* pools and the daily summaries as the first call left them when it names no
\* units; when it names units, they are added a second time, or the request is
\* refused by the daily cap and changes nothing.
C3_RetryAddsUnitsOnly ==
  Saved =>
    LET k == <<request.personId,
               IF request.effectiveDate = Null THEN now ELSE request.effectiveDate[1]>>
    IN IF request.units = 0
       THEN Retry.res.status = 200 /\ SavingsView(Retry.db) = SavingsView(DB)
       ELSE IF daily_summary[k].units_count + request.units > 4
       THEN Retry.res.error = "DAILY_CAP_EXCEEDED" /\ Retry.db = DB
       ELSE /\ Retry.res.status = 200
            /\ Retry.db.daily_summary[k].units_count
                 = daily_summary[k].units_count + request.units
            /\ Retry.db.personal_balance[k[1]].main_savings_balance
                 = personal_balance[k[1]].main_savings_balance + request.units * 50000
            /\ Retry.db.group_pool["MAIN"] = group_pool["MAIN"] + request.units * 50000
            /\ Retry.db.personal_balance[k[1]].validity_savings_balance
                 = personal_balance[k[1]].validity_savings_balance
            /\ Retry.db.group_pool["VALIDITY"] = group_pool["VALIDITY"]

\* a save of the fee alone was served and charged the fee: the request can be sent again
C3_Witness ==
  /\ Saved
  /\ request.units = 0
  /\ request.payValidity
  /\ response.body.appliedValidityAmount = 10000

----------------------------------------------------------------------------
(* Properties of the borrowing handlers, checked under SpecBorrow *)

\* the borrowings of a person in a pool that have the given status
BorrowingsOf(personId, poolType, status) ==
  {i \in 1 .. Len(borrowing) :
     /\ borrowing[i].person_id = personId
     /\ borrowing[i].pool_type = poolType
     /\ borrowing[i].status = status}

\* the BORROW log rows that granted borrowing id
GrantsOf(id) ==
  {n \in 1 .. Len(transaction_log) :
     /\ transaction_log[n].transaction_type = "BORROW"
     /\ transaction_log[n].details.borrowingId = id}

\* the balance a borrow from the pool is measured against
PersonPoolBalance(personId, poolType) ==
  IF poolType = "MAIN" THEN personal_balance[personId].main_savings_balance
  ELSE personal_balance[personId].validity_savings_balance

\* the person has made the three UNIT payments a borrow without override needs
HasSaved(personId) ==
  Cardinality({i \in 1 .. Len(payment) :
                 payment[i].person_id = personId /\ payment[i].type = "UNIT"}) >= 3

\* The tables of every reachable state are the tables a granted request (or the
\* start) left: a refused request changes none.  The properties that ask the
\* handlers what they would answer are asked in those states.
TablesSettled == Granted

\* C4 as stated: in every reachable state each (person, pool) pair has at most one
\* borrowing with status OPEN, whatever borrow (with or without admin override),
\* repay, payFull and penalty sweeps came before.
C4_OneOpenPerPool ==
  \A p \in person, t \in PoolTypes : Cardinality(BorrowingsOf(p, t, "OPEN")) <= 1

\* C4 as amended: a second OPEN borrowing of a (person, pool) pair only comes from a
\* borrow under a valid admin override.  Of any two OPEN borrowings of one pair the
\* later one was granted under admin override, so a pair that was never granted an
\* override while in debt has at most one.
C4_SecondOpenOnlyByOverride ==
  \A p \in person, t \in PoolTypes :
    \A i \in BorrowingsOf(p, t, "OPEN"), j \in BorrowingsOf(p, t, "OPEN") :
      i < j =>
        /\ Cardinality(GrantsOf(j)) = 1
        /\ \A n \in GrantsOf(j) : transaction_log[n].details.adminOverride

\* a borrow without override was refused for the open debt, and a borrow under
\* override had given the same pair a second open borrowing
C4_Witness ==
  /\ request.op = "borrow"
  /\ ~request.adminOverride
  /\ response.error = "OPEN_DEBT_EXISTS"
  /\ Cardinality(BorrowingsOf(request.personId, request.poolType, "OPEN")) = 2

\* amounts a borrow may ask for when only the open debt is in question
SmallAmounts == {1, PartAmount}

\* C5: while a person has an OPEN borrowing in a pool, every borrow of that person
\* from that pool without admin override is refused and changes no table, with
\* OPEN_DEBT_EXISTS once the person has the three UNIT payments; an open debt in
\* the other pool alone never gives OPEN_DEBT_EXISTS, and when every borrowing of
\* the pair is PAID a borrow within the limit and the funds is granted again.
C5_OpenDebtBlocksSamePool ==
  TablesSettled => \A p \in person, t \in PoolTypes, a \in SmallAmounts :
    LET out == borrow(DB, now, p, t, a, FALSE, "", TRUE)
        open == BorrowingsOf(p, t, "OPEN") # {}
    IN /\ open => out.res.status = 400 /\ out.db = DB
       /\ (out.res.error = "OPEN_DEBT_EXISTS") <=> (open /\ HasSaved(p))
       /\ (~open /\ HasSaved(p) /\ 100 * a <= 130 * PersonPoolBalance(p, t)
             /\ a <= group_pool[t])
            => /\ out.res.status = 200
               /\ Cardinality({i \in 1 .. Len(out.db.borrowing) :
                                 /\ out.db.borrowing[i].person_id = p
                                 /\ out.db.borrowing[i].pool_type = t
                                 /\ out.db.borrowing[i].status = "OPEN"}) = 1

\* a person who had paid a borrowing was granted a new borrow from the same pool
\* without override
C5_Witness ==
  /\ request.op = "borrow"
  /\ ~request.adminOverride
  /\ response.status = 200
  /\ BorrowingsOf(request.personId, request.poolType, "PAID") # {}
  /\ BorrowingsOf(request.personId, request.poolType, "OPEN") = {Len(borrowing)}

\* the open borrowings
OpenIds == {i \in 1 .. Len(borrowing) : borrowing[i].status = "OPEN"}

\* C6: for an OPEN borrowing and its owner, repay of more than the outstanding amount
\* is refused with OVERPAYMENT, reports the outstanding amount and leaves every
\* table as it was; repay of exactly the outstanding amount leaves outstanding 0
\* and status PAID; repay of a smaller positive amount lowers the outstanding
\* amount by exactly that amount and leaves the status OPEN.
C6_RepayBounds ==
  TablesSettled => \A i \in OpenIds :
    LET b == borrowing[i]
        o == b.outstanding_amount
    IN /\ \A a \in {o + 1, o + PartAmount} :
            LET out == repay(DB, now, b.person_id, i, a)
            IN /\ out.res.status = 400
               /\ out.res.error = "OVERPAYMENT"
               /\ out.res.body.outstandingAmount = o
               /\ out.db = DB
       /\ LET out == repay(DB, now, b.person_id, i, o)
          IN /\ out.res.status = 200
             /\ out.db.borrowing[i].outstanding_amount = 0
             /\ out.db.borrowing[i].status = "PAID"
       /\ \A a \in {1, PartAmount, o - 1} :
            (0 < a /\ a < o) =>
              LET out == repay(DB, now, b.person_id, i, a)
              IN /\ out.res.status = 200
                 /\ out.db.borrowing[i].outstanding_amount = o - a
                 /\ out.db.borrowing[i].status = "OPEN"

\* a repay of one cent more than the outstanding amount was refused and told the
\* outstanding amount
C6_Witness ==
  /\ request.op = "repay"
  /\ response.error = "OVERPAYMENT"
  /\ request.borrowingId \in OpenIds
  /\ response.body.outstandingAmount = borrowing[request.borrowingId].outstanding_amount
  /\ request.amount = response.body.outstandingAmount + 1

\* a PAID borrowing with nothing outstanding keeps its status and its amount
PaidStaysPaid ==
  \A i \in 1 .. Len(borrowing) :
    (borrowing[i].status = "PAID" /\ borrowing[i].outstanding_amount = 0)
      => /\ i <= Len(borrowing')
         /\ borrowing'[i].status = "PAID"
         /\ borrowing'[i].outstanding_amount = 0

\* C7: every borrowing has an outstanding amount >= 0, a PAID borrowing has nothing
\* outstanding, and PAID is terminal: no step of repay, payFull, borrow or a
\* penalty sweep changes the status or the outstanding amount of a PAID borrowing.
C7_PaidIsTerminal ==
  /\ [](\A i \in 1 .. Len(borrowing) :
          /\ borrowing[i].outstanding_amount >= 0
          /\ borrowing[i].status = "PAID" => borrowing[i].outstanding_amount = 0)
  /\ [][PaidStaysPaid]_vars

\* a penalty sweep ran a full period past the due date of a PAID borrowing
C7_Witness ==
  /\ request.op \in {"runPenalties", "adminRunPenalties"}
  /\ response.status = 200
  /\ \E i \in 1 .. Len(borrowing) :
       /\ borrowing[i].status = "PAID"
       /\ borrowing[i].outstanding_amount = 0
       /\ borrowing[i].due_date + 30 <= now

\* the borrow requests that pass every check before the funds check
ReachesFundsCheck(p, t, a, adminOverride) ==
  \/ adminOverride
  \/ /\ HasSaved(p)
     /\ BorrowingsOf(p, t, "OPEN") = {}
     /\ 100 * a <= 130 * PersonPoolBalance(p, t)

\* C8: a borrow of more than the balance of the pool it asks is refused and changes
\* no table, with INSUFFICIENT_GROUP_FUNDS for every request that reaches the funds
\* check, one under a valid admin override included; a borrow of exactly the
\* balance is never refused for the funds.
C8_GroupFundsAlwaysChecked ==
  TablesSettled => \A p \in person, t \in PoolTypes, adminOverride \in BOOLEAN :
    LET funds == group_pool[t]
        pw == IF adminOverride THEN "admin" ELSE ""
        over == borrow(DB, now, p, t, funds + 1, adminOverride, pw, TRUE)
        at == borrow(DB, now, p, t, funds, adminOverride, pw, TRUE)
    IN /\ over.res.status = 400
       /\ over.db = DB
       /\ ReachesFundsCheck(p, t, funds + 1, adminOverride)
            => over.res.error = "INSUFFICIENT_GROUP_FUNDS"
       /\ at.res.error # "INSUFFICIENT_GROUP_FUNDS"
       /\ (funds > 0 /\ ReachesFundsCheck(p, t, funds, adminOverride))
            => at.res.status = 200 /\ at.db.group_pool[t] = 0

\* a borrow under a valid admin override asked one cent more than the pool held and
\* was refused for the funds
C8_Witness ==
  /\ request.op = "borrow"
  /\ request.adminOverride
  /\ request.adminPassword = "admin"
  /\ response.error = "INSUFFICIENT_GROUP_FUNDS"
  /\ request.amount = group_pool[request.poolType] + 1

\* C9: without admin override a borrow of more than 130% of the person's balance in
\* the corresponding personal pool is refused and changes no table, with
\* LIMIT_EXCEEDED when the person has saved and has no open debt in the pool; a
\* borrow of exactly 130% is never refused for the limit, and is granted when the
\* other checks and the funds allow.
C9_PersonalLimit ==
  TablesSettled => \A p \in person, t \in PoolTypes :
    LET balance == PersonPoolBalance(p, t)
        limit == (130 * balance) \div 100
        eligible == HasSaved(p) /\ BorrowingsOf(p, t, "OPEN") = {}
        over == borrow(DB, now, p, t, limit + 1, FALSE, "", TRUE)
        at == borrow(DB, now, p, t, limit, FALSE, "", TRUE)
    IN /\ 100 * limit = 130 * balance
       /\ over.res.status = 400
       /\ over.db = DB
       /\ eligible => over.res.error = "LIMIT_EXCEEDED"
       /\ at.res.error # "LIMIT_EXCEEDED"
       /\ (eligible /\ limit > 0 /\ limit <= group_pool[t]) => at.res.status = 200

\* a borrow without override of one cent more than 130% of the balance was refused
\* for the limit
C9_Witness ==
  /\ request.op = "borrow"
  /\ ~request.adminOverride
  /\ response.error = "LIMIT_EXCEEDED"
  /\ 100 * (request.amount - 1) = 130 * PersonPoolBalance(request.personId, request.poolType)

\* a step in which a borrow was granted
BorrowGranted ==
  /\ request'.op = "borrow"
  /\ response'.status = 200
  /\ transaction_log' # transaction_log

\* what a granted borrow of the amount from the pool leaves
BorrowEffect(p, t, amount) ==
  LET id == Len(borrowing')
      b == borrowing'[id]
      entry == transaction_log'[Len(transaction_log')]
  IN /\ id = Len(borrowing) + 1
     /\ \A i \in 1 .. Len(borrowing) : borrowing'[i] = borrowing[i]
     /\ b.person_id = p /\ b.pool_type = t /\ b.status = "OPEN"
     /\ b.principal = amount
     /\ 10 * b.initial_profit_amount - amount \in -5 .. 5
     /\ b.outstanding_amount = amount + b.initial_profit_amount
     /\ b.due_date = now + (IF t = "MAIN" THEN 30 ELSE 7)
     /\ group_pool' = [group_pool EXCEPT ![t] = @ - amount]
     /\ Len(transaction_log') = Len(transaction_log) + 1
     /\ \A n \in 1 .. Len(transaction_log) : transaction_log'[n] = transaction_log[n]
     /\ entry.transaction_type = "BORROW"
     /\ entry.amount = amount
     /\ entry.details.borrowingId = id
     /\ response'.body.borrowingId = id
     /\ response'.body.outstanding = b.outstanding_amount
     /\ (amount = 130000 /\ t = "MAIN" /\ group_pool["MAIN"] = 500000)
          => b.outstanding_amount = 143000 /\ group_pool'["MAIN"] = 370000

\* C10: a granted borrow of amount A from pool P creates one OPEN borrowing with
\* principal A, an interest of 10% of A to the nearest cent and outstanding amount
\* A plus the interest, due 30 days (MAIN) or 7 days (VALIDITY) after today, takes
\* exactly A from the pool P and appends one BORROW log row; 1300.00 from a MAIN
\* pool of 5000.00 gives outstanding 1430.00 and leaves the pool 3700.00.
C10_BorrowEffect ==
  [][BorrowGranted => BorrowEffect(request'.personId, request'.poolType, request'.amount)]_vars

\* the borrow of the example was granted: 1300.00 from the MAIN pool of 5000.00
C10_Witness ==
  /\ request.op = "borrow"
  /\ request.amount = 130000
  /\ request.poolType = "MAIN"
  /\ response.status = 200
  /\ response.body.outstanding = 143000
  /\ group_pool["MAIN"] = 370000
  /\ Len(borrowing) = 1

\* C11: a borrow under admin override with the valid credential is decided by the
\* funds alone: it is granted, whatever the saved count, the open debts and the
\* 130% limit of the person, when the amount is at most the balance of the pool,
\* and refused with INSUFFICIENT_GROUP_FUNDS when it is more; a borrow under admin
\* override with a missing or wrong credential is refused with BAD_CREDENTIAL and
\* changes no table, also when the same request without override would be granted.
C11_OverrideSkipsEligibility ==
  TablesSettled => \A p \in person, t \in PoolTypes :
    \A a \in {1, PartAmount, group_pool[t], group_pool[t] + 1} :
      a > 0 =>
        LET ok == borrow(DB, now, p, t, a, TRUE, "admin", TRUE)
        IN /\ a <= group_pool[t]
                => /\ ok.res.status = 200
                   /\ ok.res.body.adminOverride
                   /\ Len(ok.db.borrowing) = Len(borrowing) + 1
                   /\ ok.db.borrowing[Len(borrowing) + 1].person_id = p
                   /\ ok.db.borrowing[Len(borrowing) + 1].principal = a
                   /\ ok.db.group_pool[t] = group_pool[t] - a
           /\ a > group_pool[t]
                => /\ ok.res.error = "INSUFFICIENT_GROUP_FUNDS"
                   /\ ok.db = DB
           /\ \A pw \in {"", "guess", "Admin"} :
                LET bad == borrow(DB, now, p, t, a, TRUE, pw, TRUE)
                IN /\ bad.res.status = 403
                   /\ bad.res.error = "BAD_CREDENTIAL"
                   /\ bad.db = DB

\* a borrow under override with a wrong password was refused for the credential,
\* and the same borrow without override is granted
C11_Witness ==
  /\ request.op = "borrow"
  /\ request.adminOverride
  /\ request.adminPassword # "admin"
  /\ response.error = "BAD_CREDENTIAL"
  /\ borrow(DB, now, request.personId, request.poolType, request.amount,
            FALSE, "", TRUE).res.status = 200

----------------------------------------------------------------------------
(* Properties of the whole ledger, checked under SpecLedger *)

\* the UNIT payment records of a person among the rows
UnitPayments(rows, personId) ==
  Cardinality({i \in 1 .. Len(rows) :
                 rows[i].person_id = personId /\ rows[i].type = "UNIT"})

\* a borrow without override of a person with fewer than three UNIT payment
\* records is refused for the saved count and changes no table
RefusedForSavedCount ==
  \A p \in person, t \in PoolTypes : \A a \in {1, PartAmount, group_pool[t]} :
    a > 0 =>
      LET out == borrow(DB, now, p, t, a, FALSE, "", TRUE)
      IN IF UnitPayments(payment, p) < 3
         THEN /\ out.res.status = 400
              /\ out.res.error = "INSUFFICIENT_SAVED_COUNT"
              /\ out.db = DB
         ELSE out.res.error # "INSUFFICIENT_SAVED_COUNT"

\* a granted save or retroactive fill adds one UNIT payment record when it applied
\* units, whatever their number, and none when it applied none; the handlers of
\* the borrowings and the sweeps add none
OneRecordPerSave ==
  \A p \in person :
    LET added == UnitPayments(payment', p) - UnitPayments(payment, p)
    IN /\ (request'.op \in {"save", "retroactive"} /\ response'.status = 200
            /\ served' # served)
           => added = IF request'.personId = p /\ response'.body.appliedUnits > 0
                      THEN 1 ELSE 0
       /\ request'.op \in {"borrow", "repay", "payFull", "runPenalties",
                            "adminRunPenalties"}
           => added = 0

\* C12: without admin override a borrow by a person with fewer than 3 Payment
\* records of type UNIT is refused with INSUFFICIENT_SAVED_COUNT and changes no
\* table, whatever the person's balance; what is counted is the UNIT payment
\* records, one per save or retroactive fill that applied units, not the units.
C12_SavedCountOfRecords ==
  /\ [](TablesSettled => RefusedForSavedCount)
  /\ [][OneRecordPerSave]_vars

\* a person who bought at least three units on one day, with fewer than three UNIT
\* payment records, was refused a borrow for the saved count
C12_Witness ==
  /\ request.op = "borrow"
  /\ ~request.adminOverride
  /\ response.error = "INSUFFICIENT_SAVED_COUNT"
  /\ UnitPayments(payment, request.personId) = 2
  /\ \E k \in DOMAIN daily_summary :
       k[1] = request.personId /\ daily_summary[k].units_count >= 3
  /\ personal_balance[request.personId].main_savings_balance >= 3 * 50000

----------------------------------------------------------------------------
(* Properties of the penalty sweeps, checked under SpecSweep *)

\* a step in which a penalty sweep ran
SweepStep ==
  /\ request'.op \in {"runPenalties", "adminRunPenalties"}
  /\ served' = served + 1

\* the period of a pool, in days
PoolPeriod(poolType) == IF poolType = "MAIN" THEN 30 ELSE 7

\* the PENALTY log rows of a borrowing among the rows
PenaltyRows(rows, id) ==
  {n \in 1 .. Len(rows) :
     /\ rows[n].transaction_type = "PENALTY"
     /\ IF "borrowingId" \in DOMAIN rows[n].details
        THEN rows[n].details.borrowingId = id
        ELSE rows[n].details.borrowing_id = id}

\* the sweep of the step left the borrowing as it was and logged no penalty for it
NotPenalized(id) ==
  /\ borrowing'[id] = borrowing[id]
  /\ PenaltyRows(transaction_log', id) = PenaltyRows(transaction_log, id)

\* the later of the due date of a borrowing and its last penalty
PenaltyClock(b) ==
  IF b.last_penalty_applied_at # Null /\ b.last_penalty_applied_at[1] > b.due_date
  THEN b.last_penalty_applied_at[1] ELSE b.due_date

LoggedPeriods(id) ==
  LET new == PenaltyRows(transaction_log', id) \ PenaltyRows(transaction_log, id)
  IN {transaction_log'[n].details.periods : n \in new}

\* C14: a borrowing that a sweep penalizes for n full periods gets the outstanding
\* amount old x 1.10^n rounded to cents once, at the end; 1100.00 with n = 2
\* gives 1331.00.
C14_RoundedOnceAtEnd ==
  [][SweepStep
       => \A i \in 1 .. Len(borrowing) :
            borrowing'[i].outstanding_amount # borrowing[i].outstanding_amount
              => \E n \in LoggedPeriods(i) :
                   /\ n >= 1
                   /\ borrowing'[i].outstanding_amount
                        \in {CompoundOnce(borrowing[i].outstanding_amount, n, tieUp) :
                               tieUp \in BOOLEAN}
                   /\ (borrowing[i].outstanding_amount = 110000 /\ n = 2)
                        => borrowing'[i].outstanding_amount = 133100]_vars

\* C15: a sweep penalizes an OPEN borrowing for fullPeriods = the whole days since
\* the later of its due date and its last penalty, divided by 30 (MAIN) or 7
\* (VALIDITY) and rounded down, and skips it when that is 0 or it is not overdue:
\* a VALIDITY borrowing is penalized once 7 whole days have passed since its due
\* date.
C15_PeriodsByPool ==
  [][SweepStep
       => \A i \in 1 .. Len(borrowing) :
            borrowing[i].status = "OPEN"
              => LET b == borrowing[i]
                     fullPeriods == IF now > b.due_date
                                    THEN (now - PenaltyClock(b)) \div PoolPeriod(b.pool_type)
                                    ELSE 0
                 IN IF fullPeriods = 0 THEN NotPenalized(i)
                    ELSE /\ LoggedPeriods(i) = {fullPeriods}
                         /\ borrowing'[i].last_penalty_applied_at = Some(now)]_vars

----------------------------------------------------------------------------
(* Properties of the ledger under every handler, checked under SpecLedger *)

\* what a log row says it moved into (+) or out of (-) the pool poolType: the
\* units and the fee of a SAVING row (its amount adds the two, and the fine that
\* has a row of its own), a FINE, a REPAYMENT to the pool whose balance the row
\* records, the principal of a BORROW
PoolChange(r, poolType) ==
  CASE r.transaction_type = "SAVING" ->
         IF poolType = "MAIN" THEN r.details.appliedUnits * UNIT_PRICE
         ELSE IF "appliedValidity" \in DOMAIN r.details THEN r.details.appliedValidity
         ELSE r.details.appliedValidityAmount
    [] r.transaction_type = "FINE" -> IF poolType = "MAIN" THEN r.amount ELSE 0
    [] r.transaction_type = "REPAYMENT" ->
         IF (poolType = "MAIN" /\ r.resulting_group_main_balance # Null)
            \/ (poolType = "VALIDITY" /\ r.resulting_group_validity_balance # Null)
         THEN r.amount ELSE 0
    [] r.transaction_type = "BORROW" ->
         IF r.details.poolType = poolType THEN 0 - r.amount ELSE 0
    [] OTHER -> 0

\* the sum of the changes of the first n log rows
RECURSIVE LoggedChange(_, _, _)
LoggedChange(rows, poolType, n) ==
  IF n = 0 THEN 0
  ELSE LoggedChange(rows, poolType, n - 1) + PoolChange(rows[n], poolType)

\* C16: whatever handlers were called, deleteMember among them, the balance of each
\* pool is the sum of the signed changes that the transaction log records since the
\* last reset (a reset leaves the log with its ADMIN_RESET row alone).
C16_LogReconciles ==
  \A poolType \in PoolTypes :
    group_pool[poolType] = LoggedChange(transaction_log, poolType, Len(transaction_log))

\* the handlers that move money
MoneyOps ==
  {"save", "retroactive", "borrow", "repay", "payFull", "runPenalties",
   "adminRunPenalties"}

\* a step in which one of them serves a request
MoneyStep == served' = served + 1 /\ request'.op \in MoneyOps

\* C17: a save, retroactive fill, borrow, repay, pay-full or penalty sweep that fails
\* (refused by a check, or because the store failed one of its statements, whichever
\* and however many were run before it) leaves every table as it was before the
\* request: no balance, row or log entry of it stays.
C17_AllOrNothing ==
  [][(MoneyStep /\ response'.status >= 400) => UNCHANGED tables]_vars

\* the store failed the COMMIT of a borrow that had written its three rows
C17_Witness ==
  /\ request.op = "borrow" /\ "failsAt" \in DOMAIN request
  /\ request.failsAt = Len(borrowTables) + 1
  /\ response.status = 500 /\ response.error = "DB_ERROR"

\* a step in which resetAll serves a request
ResetStep == served' = served + 1 /\ request'.op = "resetAll"

\* every personal balance and both pools are 0
BalancesZero ==
  /\ \A q \in DOMAIN personal_balance :
       /\ personal_balance[q].main_savings_balance = 0
       /\ personal_balance[q].validity_savings_balance = 0
  /\ \A poolType \in PoolTypes : group_pool[poolType] = 0

\* C18: outside the dependent-row cleanup of deleteMember no failing statement is
\* tolerated: a resetAll one of whose statements fails is aborted and commits
\* nothing, so a resetAll that was granted never leaves a balance that is not 0.
C18_ResetAbortsOnFailure ==
  /\ [][(ResetStep /\ request'.failing # {})
          => (response'.status >= 400 /\ UNCHANGED tables)]_vars
  /\ []((request.op = "resetAll" /\ Granted) => BalancesZero)

\* no borrowing is left: every id that was given is the id of a deleted row
NoBorrowings == \A i \in 1 .. Len(borrowing) : borrowing[i] = NoRow

\* C19: resetAll with the admin password leaves no borrowing, payment or daily
\* summary, every personal balance and both pools at 0, the members as they were,
\* and a log of exactly one row, ADMIN_RESET with no person; with no password or a
\* wrong one it answers BAD_CREDENTIAL and changes nothing.
C19_ResetPostcondition ==
  [][ResetStep =>
       /\ response'.status < 400 =>
            /\ request'.password = ADMIN_PASSWORD
            /\ NoBorrowings' /\ payment' = <<>> /\ DOMAIN daily_summary' = {}
            /\ BalancesZero'
            /\ DOMAIN personal_balance' = DOMAIN personal_balance
            /\ person' = person
            /\ Len(transaction_log') = 1
            /\ transaction_log'[1].transaction_type = "ADMIN_RESET"
            /\ transaction_log'[1].person_id = Null
       /\ BadCredential(request'.password) =>
            /\ response'.status = 403 /\ response'.error = "BAD_CREDENTIAL"
            /\ UNCHANGED tables]_vars

\* every row of old is a row of new, unchanged and in its place
RowsKept(old, new) ==
  /\ Len(new) >= Len(old)
  /\ \A i \in 1 .. Len(old) : new[i] = old[i]

\* C20: a step of any handler but resetAll, deleteMember among them, keeps every
\* transaction log row and every payment row that there was, unchanged.
C20_AppendOnly ==
  [][request'.op # "resetAll"
       => /\ RowsKept(transaction_log, transaction_log')
          /\ RowsKept(payment, payment')]_vars

\* a step in which deleteMember serves a request
DeleteStep == served' = served + 1 /\ request'.op = "deleteMember"

\* the ADMIN_DELETE_MEMBER rows of a log
DeleteRows(rows) ==
  {i \in 1 .. Len(rows) : rows[i].transaction_type = "ADMIN_DELETE_MEMBER"}

\* C21: a deleteMember that is granted was asked with the admin password for a
\* member; it leaves no person row, no personal balance, daily summary, borrowing or
\* payment of that member, and one more ADMIN_DELETE_MEMBER log row, the last of the
\* log, with no person.  A wrong password is answered BAD_CREDENTIAL, no id
\* MISSING_ID, an id that is no member's NOT_FOUND, with every table unchanged.
C21_DeleteMemberEffect ==
  [][DeleteStep =>
       LET q == request'.person_id
           bad == BadCredential(request'.password)
       IN /\ response'.status < 400 =>
               /\ ~bad /\ q \in person /\ q \notin person'
               /\ q \notin DOMAIN personal_balance'
               /\ \A k \in DOMAIN daily_summary' : k[1] # q
               /\ \A i \in 1 .. Len(borrowing') : borrowing'[i].person_id # q
               /\ \A i \in 1 .. Len(payment') : payment'[i].person_id # q
               /\ Cardinality(DeleteRows(transaction_log'))
                    = Cardinality(DeleteRows(transaction_log)) + 1
               /\ Len(transaction_log') \in DeleteRows(transaction_log')
               /\ transaction_log'[Len(transaction_log')].person_id = Null
          /\ bad => (response'.status = 403 /\ response'.error = "BAD_CREDENTIAL"
                     /\ UNCHANGED tables)
          /\ (~bad /\ q = 0) => (response'.status = 400
                                  /\ response'.error = "MISSING_ID"
                                  /\ UNCHANGED tables)
          /\ (~bad /\ q # 0 /\ q \notin person) =>
               (response'.status = 404 /\ response'.error = "NOT_FOUND"
                /\ UNCHANGED tables)]_vars

----------------------------------------------------------------------------
(* Properties of the log rows of the savings handlers, checked under SpecSave *)

\* the fee that a save or a retroactive fill of the next state charges: asked for
\* and not yet paid for its date in this state
FeeCharged(date, asked) ==
  LET k == <<request'.personId, date>>
  IN IF asked /\ ~(k \in DOMAIN daily_summary /\ daily_summary[k].validity_paid)
     THEN VALIDITY_FEE ELSE 0

\* C24: a granted save appends one log row, a SAVING row of the member whose amount
\* is the units times UNIT_PRICE plus the fee if it was charged, when that amount is
\* above 0, and no log row when nothing was applied (no units, and the fee not asked
\* for or already paid for the date).
C24_OneSavingEntry ==
  [][(request'.op = "save" /\ response'.status < 400) =>
       LET date == IF request'.effectiveDate = Null THEN now
                   ELSE request'.effectiveDate[1]
           amount == request'.units * UNIT_PRICE
                       + FeeCharged(date, request'.payValidity)
       IN IF amount > 0
          THEN /\ Len(transaction_log') = Len(transaction_log) + 1
               /\ RowsKept(transaction_log, transaction_log')
               /\ Last(transaction_log').transaction_type = "SAVING"
               /\ Last(transaction_log').person_id = Some(request'.personId)
               /\ Last(transaction_log').amount = amount
          ELSE transaction_log' = transaction_log]_vars

\* a save of no units that asked for a fee already paid was granted: nothing applied
C24_Witness ==
  /\ request.op = "save" /\ Granted
  /\ request.units = 0 /\ request.payValidity
  /\ response.body.appliedValidityAmount = 0

\* the FINE payments of a member, and the FINE log rows of a member
FinePayments(rows, personId) ==
  {i \in 1 .. Len(rows) : rows[i].type = "FINE" /\ rows[i].person_id = personId}

FineEntries(rows, personId) ==
  {i \in 1 .. Len(rows) :
     rows[i].transaction_type = "FINE" /\ rows[i].person_id = Some(personId)}

\* C25: a granted retroactive fill charges the fine FINE_AMOUNT when it adds units,
\* on a new day and on an existing one, and no fine when it adds none: the fine goes
\* to the MAIN pool and to the day's fine_amount, with one FINE payment and one FINE
\* log row, and the member's main savings grow by the units alone.
C25_FineWithUnits ==
  [][(request'.op = "retroactive" /\ response'.status < 400) =>
       LET p == request'.personId
           k == <<p, request'.date[1]>>
           unitsAmount == request'.addUnits * UNIT_PRICE
           fine == IF request'.addUnits > 0 THEN FINE_AMOUNT ELSE 0
           fined == IF request'.addUnits > 0 THEN 1 ELSE 0
           fineBefore == IF k \in DOMAIN daily_summary
                         THEN daily_summary[k].fine_amount ELSE 0
       IN /\ group_pool'["MAIN"] = group_pool["MAIN"] + unitsAmount + fine
          /\ daily_summary'[k].fine_amount = fineBefore + fine
          /\ Cardinality(FinePayments(payment', p))
               = Cardinality(FinePayments(payment, p)) + fined
          /\ Cardinality(FineEntries(transaction_log', p))
               = Cardinality(FineEntries(transaction_log, p)) + fined
          /\ \A i \in FinePayments(payment', p) \ FinePayments(payment, p) :
               payment'[i].amount = FINE_AMOUNT
          /\ \A i \in FineEntries(transaction_log', p) \ FineEntries(transaction_log, p) :
               transaction_log'[i].amount = FINE_AMOUNT
          /\ personal_balance'[p].main_savings_balance
               = personal_balance[p].main_savings_balance + unitsAmount]_vars

\* a retroactive fill added a unit to a day that had units already, and was fined
C25_Witness ==
  /\ request.op = "retroactive" /\ Granted /\ request.addUnits > 0
  /\ daily_summary[<<request.personId, request.date[1]>>].units_count
       > request.addUnits
  /\ response.body.fineApplied = FINE_AMOUNT

\* the sum of the amounts of the rows from row n on
RECURSIVE AmountsFrom(_, _)
AmountsFrom(rows, n) ==
  IF n > Len(rows) THEN 0 ELSE rows[n].amount + AmountsFrom(rows, n + 1)

\* C28: a granted retroactive fill that charges a fine appends a FINE log row for
\* the fine and a SAVING log row whose amount is the units and the fee it applied,
\* without the fine: the amounts of the rows it appended add up to what it credited
\* to the two pools.
C28_LogAmountsAreCredits ==
  [][(request'.op = "retroactive" /\ response'.status < 400
        /\ request'.addUnits > 0) =>
       LET applied == request'.addUnits * UNIT_PRICE
                        + FeeCharged(request'.date[1], request'.payValidityIfMissing)
           credited == (group_pool'["MAIN"] + group_pool'["VALIDITY"])
                         - (group_pool["MAIN"] + group_pool["VALIDITY"])
       IN /\ Len(transaction_log') = Len(transaction_log) + 2
          /\ RowsKept(transaction_log, transaction_log')
          /\ transaction_log'[Len(transaction_log) + 1].transaction_type = "FINE"
          /\ Last(transaction_log').transaction_type = "SAVING"
          /\ Last(transaction_log').amount = applied
          /\ AmountsFrom(transaction_log', Len(transaction_log) + 1) = credited]_vars

----------------------------------------------------------------------------
(* Properties of single handlers, checked under SpecLedger on the requests whose *)
(* statements the store ran *)

\* a step in which op serves a request and the store fails no statement
Ran(op) ==
  /\ served' = served + 1 /\ request'.op = op
  /\ "failsAt" \notin DOMAIN request'

\* rows without their details
Bare(rows) ==
  [i \in 1 .. Len(rows) |-> [rows[i] EXCEPT !.details = <<>>]]

\* C26: payFull of a member with an open borrowing in the pool does what repay of
\* exactly the outstanding amount of that borrowing does: outstanding 0, status
\* PAID, the pool credited with what was outstanding, one DEBT_PAYMENT and one
\* REPAYMENT log row (the two differ in the details of the log row alone).  It is
\* never refused for lack of funds, and with no open borrowing in the pool it
\* answers NOT_FOUND and changes nothing.
C26_PayFullIsRepayOfOutstanding ==
  [][Ran("payFull") =>
       LET p == request'.personId
           t == request'.poolType
           open == OpenBorrowings(DB, p, t)
       IN IF open = {}
          THEN /\ response'.status = 404 /\ response'.error = "NOT_FOUND"
               /\ UNCHANGED tables
          ELSE \E b \in open :
                 LET outstanding == borrowing[b].outstanding_amount
                     out == repay(DB, now, p, b, outstanding)
                 IN /\ response'.status < 400 /\ out.res.status < 400
                    /\ response'.body.borrowingId = b
                    /\ response'.body.paidAmount = outstanding
                    /\ borrowing'[b].outstanding_amount = 0
                    /\ borrowing'[b].status = "PAID"
                    /\ group_pool'[t] = group_pool[t] + outstanding
                    /\ borrowing' = out.db.borrowing
                    /\ group_pool' = out.db.group_pool
                    /\ payment' = out.db.payment
                    /\ Len(payment') = Len(payment) + 1
                    /\ Last(payment').type = "DEBT_PAYMENT"
                    /\ Len(transaction_log') = Len(transaction_log) + 1
                    /\ Last(transaction_log').transaction_type = "REPAYMENT"
                    /\ Bare(transaction_log') = Bare(out.db.transaction_log)
                    /\ <<person', personal_balance', daily_summary'>>
                         = <<person, personal_balance, daily_summary>>]_vars

\* a payFull paid a borrowing in full
C26_Witness ==
  /\ request.op = "payFull" /\ "failsAt" \notin DOMAIN request /\ Granted
  /\ response.body.paidAmount > 0
  /\ borrowing[response.body.borrowingId].status = "PAID"

\* the units of every daily summary, added up row by row in the order of the keys
UnitsRecorded ==
  LET ks == DOMAIN daily_summary
      Upto(k) == {j \in ks : j[1] < k[1] \/ (j[1] = k[1] /\ j[2] <= k[2])}
      Running[n \in 0 .. Cardinality(ks)] ==
        IF n = 0 THEN 0
        ELSE Running[n - 1]
               + daily_summary[CHOOSE k \in ks : Cardinality(Upto(k)) = n].units_count
  IN Running[Cardinality(ks)]

\* the pools and the units of the worked example: 3000.00 and 700.00, 40 units
ShareExampleDB ==
  [FreshDB EXCEPT !.group_pool = [MAIN |-> 3000 * 100, VALIDITY |-> 700 * 100],
                  !.daily_summary =
                    [k \in {1} \X (1 .. 10) |->
                       [validity_paid |-> TRUE, units_count |-> 4, fine_amount |-> 0]]]

\* C27: getShare changes no table and answers total_savings = the MAIN pool plus the
\* VALIDITY pool, total_units = the units of all daily summaries, and share_per_unit
\* = total_savings / total_units to the nearest cent, 0 when there are no units,
\* in every state, after resetAll and deleteMember too; pools of 3000.00 and 700.00
\* with 40 units give 92.50.
C27_GetShare ==
  /\ [][(served' = served + 1 /\ request'.op = "getShare") =>
          LET body == response'.body
          IN /\ UNCHANGED tables /\ response'.status = 200
             /\ body.total_savings = group_pool["MAIN"] + group_pool["VALIDITY"]
             /\ body.total_units = UnitsRecorded
             /\ IF UnitsRecorded = 0 THEN body.share_per_unit = 0
                ELSE LET off == body.share_per_unit * UnitsRecorded - body.total_savings
                     IN 2 * off <= UnitsRecorded /\ 2 * off >= 0 - UnitsRecorded]_vars
  /\ [](\A tieUp \in BOOLEAN :
          getShare(ShareExampleDB, tieUp).res.body.share_per_unit = 9250)

\* getShare answered in a state whose units do not divide its savings to the cent
C27_Witness ==
  /\ request.op = "getShare" /\ response.body.total_units > 0
  /\ response.body.total_savings % response.body.total_units # 0

\* the pool that the log row r of the tables says it moved
PoolMoved(r, rows) ==
  CASE r.transaction_type = "BORROW" -> r.details.poolType
    [] r.transaction_type = "REPAYMENT" -> rows[r.details.borrowingId].pool_type
    [] OTHER -> "MAIN"

\* the snapshot of the pool poolType that the log row r carries
GroupSnapshot(r, poolType) ==
  IF poolType = "MAIN" THEN r.resulting_group_main_balance
  ELSE r.resulting_group_validity_balance

\* C30: every SAVING, FINE, BORROW and REPAYMENT log row carries the balances of the
\* state that its transaction commits: the snapshot of the pool it moved is that
\* pool's balance after the step, and a SAVING row carries both pools' balances and
\* the member's two balances after the step.
C30_SnapshotsAreCommitted ==
  [][(MoneyStep /\ response'.status < 400) =>
       \A i \in (Len(transaction_log) + 1) .. Len(transaction_log') :
         LET r == transaction_log'[i]
         IN /\ r.transaction_type \in {"FINE", "BORROW", "REPAYMENT"} =>
                 GroupSnapshot(r, PoolMoved(r, borrowing'))
                   = Some(group_pool'[PoolMoved(r, borrowing')])
            /\ r.transaction_type = "SAVING" =>
                 /\ r.resulting_group_main_balance = Some(group_pool'["MAIN"])
                 /\ r.resulting_group_validity_balance
                      = Some(group_pool'["VALIDITY"])
                 /\ r.resulting_person_main_balance
                      = Some(personal_balance'[r.person_id[1]].main_savings_balance)
                 /\ r.resulting_person_validity_balance
                      = Some(personal_balance'[r.person_id[1]].validity_savings_balance)]_vars

\* a retroactive fill with a fine was granted: it wrote a FINE row and a SAVING row
C30_Witness ==
  /\ request.op = "retroactive" /\ Granted /\ request.addUnits > 0
  /\ Len(transaction_log) >= 2
  /\ transaction_log[Len(transaction_log) - 1].transaction_type = "FINE"
  /\ transaction_log[Len(transaction_log)].transaction_type = "SAVING"
  /\ transaction_log[Len(transaction_log)].resulting_group_validity_balance
       # transaction_log[Len(transaction_log)].resulting_group_main_balance







----------------------------------------------------------------------------
(* Concurrent handlers.  Each connection of the pool runs one handler as one      *)
(* transaction, statement by statement, and the statements of two connections     *)
(* interleave.  The store is InnoDB: a row that a transaction locked, changed or   *)
(* inserted stays locked until the transaction ends, a statement that needs a      *)
(* locked row waits, a plain SELECT waits for nothing and reads what is            *)
(* committed, and what a transaction wrote shows to the others when it commits.    *)
(* txn[s] is the transaction of connection s: its request, the statements it ran   *)
(* (pc), the rows it holds, the rows it read (view) and, when it ended, the        *)
(* response.  A lock names a row by its table and its key.                         *)

\* the two connections that run handlers at the same time
Sessions == {1, 2}

\* a read that takes no lock
ForUpdateNever(rows) == <<>>

\* SELECT ... FOR UPDATE: the rows the statement finds are locked, in the order found
ForUpdate(rows) == rows

\* the row is in the table
Found(db, row) ==
  CASE row[1] = "person" -> row[2] \in db.person
    [] row[1] = "personal_balance" -> row[2] \in DOMAIN db.personal_balance
    [] row[1] = "daily_summary" -> row[2] \in DOMAIN db.daily_summary
    [] row[1] = "group_pool" -> row[2] \in DOMAIN db.group_pool
    [] row[1] = "borrowing" -> row[2] \in 1 .. Len(db.borrowing)

\* WHERE key = ?: the row if it is there, or if another transaction holds it (a row
\* inserted and not yet committed is waited for)
Lookup(db, others, row) ==
  IF Found(db, row) \/ row \in UNION {u.held : u \in others} THEN <<row>> ELSE <<>>

\* the ids of ids in ascending order, as an index scan finds them
RECURSIVE Ascending(_)
Ascending(ids) ==
  IF ids = {} THEN <<>>
  ELSE LET least == CHOOSE i \in ids : \A j \in ids : i <= j
       IN <<least>> \o Ascending(ids \ {least})

\* the borrowing rows a scan meets, in the order of their ids: the committed rows
\* with the status asked for, of the person and the pool asked for (Null asks for
\* any), and the rows that a borrow of others inserted for them and has not
\* committed
BorrowingRows(db, others, statuses, personId, poolType) ==
  LET Matches(b) == /\ personId # Null => b.person_id = personId[1]
                    /\ poolType # Null => b.pool_type = poolType[1]
      Pending(i) ==
        /\ db.borrowing[i] = NoRow
        /\ \E u \in others :
             /\ <<"borrowing", i>> \in u.held
             /\ u.req.op = "borrow"
             /\ Matches([person_id |-> u.req.personId, pool_type |-> u.req.poolType])
      ids == {i \in 1 .. Len(db.borrowing) :
                \/ db.borrowing[i].status \in statuses /\ Matches(db.borrowing[i])
                \/ Pending(i)}
      sorted == Ascending(ids)
  IN [n \in 1 .. Len(sorted) |-> <<"borrowing", sorted[n]>>]

\* a statement: the rows it locks, in order, the rows among them that it inserts, the
\* tables it reads, the refusals that end it ("*" is any), and whether it is the INSERT
\* of a borrowing
Statement(lock, insert, read, stop, borrowed) ==
  [lock |-> lock, insert |-> insert, read |-> read, stop |-> stop,
   borrowed |-> borrowed]

\* the date a save or retroactive request is about
DateOf(req, today) ==
  IF req.op = "retroactive" THEN req.date[1]
  ELSE IF req.effectiveDate = Null THEN today ELSE req.effectiveDate[1]

\* statement k of saveUnitsAndValidity and of retroactiveFill.  retroactiveFill
\* checks the cap before it writes and saveUnitsAndValidity after the fee; the
\* balances are read back after the last update.
savingStatement(req, k, today, db, view, others) ==
  LET personId == req.personId
      date == DateOf(req, today)
      pbRow == <<"personal_balance", personId>>
      dsRow == <<"daily_summary", <<personId, date>>>>
      retro == req.op = "retroactive"
      newDay == <<personId, date>> \notin DOMAIN view.daily_summary
      asked == IF retro THEN req.payValidityIfMissing ELSE req.payValidity
      units == IF retro THEN req.addUnits ELSE req.units
      charge == IF newDay THEN asked
                ELSE IF retro
                THEN RetroChargesValidity(asked, view.daily_summary[<<personId, date>>])
                ELSE SaveChargesValidity(asked, view.daily_summary[<<personId, date>>])
  IN CASE k = 1 -> Statement(ForUpdate(Lookup(db, others, pbRow)), {},
                             {"personal_balance"}, {}, FALSE)
       [] k = 2 -> IF personId \in DOMAIN view.personal_balance
                   THEN Statement(<<>>, {}, {}, {}, FALSE)
                   ELSE Statement(<<pbRow>>, {pbRow}, {}, {}, FALSE)
       [] k = 3 -> Statement(ForUpdate(Lookup(db, others, dsRow)), {}, {"daily_summary"},
                             IF retro THEN {"UNITS_CAP_EXCEEDED"} ELSE {}, FALSE)
       [] k = 4 -> IF newDay THEN Statement(<<dsRow>>, {dsRow}, {}, {}, FALSE)
                   ELSE IF retro THEN Statement(<<dsRow>>, {}, {}, {}, FALSE)
                   ELSE Statement(<<>>, {}, {}, {}, FALSE)
       [] k = 5 -> Statement(IF charge
                             THEN <<dsRow, pbRow, <<"group_pool", "VALIDITY">>>>
                             ELSE <<>>,
                             {}, {}, IF retro THEN {} ELSE {"DAILY_CAP_EXCEEDED"}, FALSE)
       [] k = 6 -> Statement(IF units > 0
                             THEN <<dsRow, pbRow, <<"group_pool", "MAIN">>>>
                             ELSE <<>>,
                             {}, {"group_pool"}, {}, FALSE)

\* statement k of borrow: the two locking reads, the counts and checks that end in
\* the INSERT of the borrowing, and the UPDATE of the pool
borrowStatement(req, k, db, view, others) ==
  CASE k = 1 -> Statement(ForUpdate(Lookup(db, others,
                                           <<"personal_balance", req.personId>>)),
                          {}, {"personal_balance"}, {"NO_PERSONAL_BALANCE"}, FALSE)
    [] k = 2 -> Statement(ForUpdate(<<<<"group_pool", req.poolType>>>>), {},
                          {"group_pool"}, {}, FALSE)
    [] k = 3 -> Statement(<<>>, {}, {"payment", "borrowing"}, {"*"}, TRUE)
    [] k = 4 -> Statement(<<<<"group_pool", req.poolType>>>>, {}, {}, {}, FALSE)

\* statement k of repay: the locking read of the borrowing and its checks, then the
\* UPDATE of the borrowing and of its pool
repayStatement(req, k, db, view, others) ==
  LET bRow == <<"borrowing", req.borrowingId>>
  IN CASE k = 1 -> Statement(ForUpdate(Lookup(db, others, bRow)), {}, {"borrowing"},
                             {"*"}, FALSE)
       [] k = 2 -> Statement(<<bRow, <<"group_pool",
                                         view.borrowing[req.borrowingId].pool_type>>>>,
                             {}, {"group_pool"}, {}, FALSE)

\* statement k of payFull: the locking read of the open borrowings of the person in
\* the pool, then the UPDATE of rows[0] and of the pool
payFullStatement(req, k, db, view, others) ==
  LET theirs == Some(req.personId)
      pool == Some(req.poolType)
  IN CASE k = 1 -> Statement(ForUpdate(BorrowingRows(db, others, {"OPEN"}, theirs, pool)),
                             {}, {"borrowing"}, {"*"}, FALSE)
       [] k = 2 -> Statement(BorrowingRows(view, {}, {"OPEN"}, theirs, pool)
                               \o <<<<"group_pool", req.poolType>>>>,
                             {}, {"group_pool"}, {}, FALSE)

\* statement k of a penalty sweep: the locking read of every open borrowing, then
\* the UPDATEs of the loop
sweepStatement(req, k, db, view, others) ==
  CASE k = 1 -> Statement(ForUpdate(BorrowingRows(db, others, {"OPEN"}, Null, Null)),
                          {}, {"borrowing"}, {}, FALSE)
    [] k = 2 -> Statement(BorrowingRows(view, {}, {"OPEN"}, Null, Null), {}, {}, {}, FALSE)

\* statement k of deleteMember: the locking read of the person, the DELETE of each
\* dependent table, which locks the rows of the person in the order of their keys,
\* and the DELETE of the person
deleteStatement(req, k, db, view, others) ==
  LET personId == req.person_id
      pRow == <<"person", personId>>
      tbl == dependentDeletes[k - 1]
      logs == Ascending({i \in 1 .. Len(db.transaction_log) :
                           db.transaction_log[i].person_id = Some(personId)})
      payments == Ascending({i \in 1 .. Len(db.payment) :
                               db.payment[i].person_id = personId})
      days == Ascending({key[2] : key \in {d \in DOMAIN db.daily_summary :
                                             d[1] = personId}})
      rows == CASE tbl = "transaction_log" ->
                     [n \in 1 .. Len(logs) |-> <<tbl, logs[n]>>]
                [] tbl = "payment" ->
                     [n \in 1 .. Len(payments) |-> <<tbl, payments[n]>>]
                [] tbl = "borrowing" ->
                     BorrowingRows(db, others, {"OPEN", "PAID"}, Some(personId), Null)
                [] tbl = "daily_summary" ->
                     [n \in 1 .. Len(days) |-> <<tbl, <<personId, days[n]>>>>]
                [] tbl = "personal_balance" ->
                     IF personId \in DOMAIN db.personal_balance
                     THEN <<<<tbl, personId>>>> ELSE <<>>
  IN CASE k = 1 -> Statement(ForUpdate(Lookup(db, others, pRow)), {}, {"person"},
                             {"*"}, FALSE)
       [] k \in 2 .. Len(dependentDeletes) + 1 -> Statement(rows, {}, {tbl}, {}, FALSE)
       [] k = Len(dependentDeletes) + 2 -> Statement(<<pRow>>, {}, {}, {}, FALSE)

\* the statements a handler runs between beginTransaction and commit
Statements(req) ==
  CASE req.op \in {"save", "retroactive"} -> 6
    [] req.op = "borrow" -> 4
    [] req.op \in {"repay", "payFull", "runPenalties", "adminRunPenalties"} -> 2
    [] req.op = "deleteMember" -> Len(dependentDeletes) + 2

\* statement k of the handler of req
StatementOf(req, k, today, db, view, others) ==
  CASE req.op \in {"save", "retroactive"} -> savingStatement(req, k, today, db, view, others)
    [] req.op = "borrow" -> borrowStatement(req, k, db, view, others)
    [] req.op = "repay" -> repayStatement(req, k, db, view, others)
    [] req.op = "payFull" -> payFullStatement(req, k, db, view, others)
    [] req.op \in {"runPenalties", "adminRunPenalties"} ->
         sweepStatement(req, k, db, view, others)
    [] req.op = "deleteMember" -> deleteStatement(req, k, db, view, others)

\* what the handler of req answers and writes when the rows it read are those of view
Handle(req, today, view, first) ==
  CASE req.op = "save" ->
         saveUnitsAndValidity(view, today, req.personId, req.units, req.payValidity,
                              req.effectiveDate)
    [] req.op = "retroactive" ->
         retroactiveFill(view, today, req.personId, req.date, req.addUnits,
                         req.payValidityIfMissing)
    [] req.op = "borrow" ->
         borrow(view, today, req.personId, req.poolType, req.amount, req.adminOverride,
                req.adminPassword, req.tieUp)
    [] req.op = "repay" -> repay(view, today, req.personId, req.borrowingId, req.amount)
    [] req.op = "payFull" -> payFull(view, today, req.personId, req.poolType, first)
    [] req.op = "runPenalties" -> runPenalties(view, today, req.tieUp)
    [] req.op = "adminRunPenalties" -> adminRunPenalties(view, today, req.tieUp)
    [] req.op = "deleteMember" -> deleteMember(view, req.person_id, req.password, {})

\* the rows payFull may find first: any open borrowing of the person in the pool
Firsts(req, view) ==
  IF req.op = "payFull" /\ OpenBorrowings(view, req.personId, req.poolType) # {}
  THEN OpenBorrowings(view, req.personId, req.poolType)
  ELSE {0}

\* the tables of tbls as they are committed in db, the others as view has them
ReadTables(view, db, tbls) ==
  [person |-> IF "person" \in tbls THEN db.person ELSE view.person,
   personal_balance |-> IF "personal_balance" \in tbls THEN db.personal_balance
                        ELSE view.personal_balance,
   group_pool |-> IF "group_pool" \in tbls THEN db.group_pool ELSE view.group_pool,
   borrowing |-> IF "borrowing" \in tbls THEN db.borrowing ELSE view.borrowing,
   payment |-> IF "payment" \in tbls THEN db.payment ELSE view.payment,
   daily_summary |-> IF "daily_summary" \in tbls THEN db.daily_summary
                     ELSE view.daily_summary,
   transaction_log |-> IF "transaction_log" \in tbls THEN db.transaction_log
                       ELSE view.transaction_log]

\* commit: what the statements of a transaction did to the rows of view, which the
\* handler took to out, done to the committed rows of db.  SET x = x + ? adds to the
\* committed value, SET x = ? replaces it, an inserted row is new, and the rows of
\* payment and transaction_log are appended.
CommitWrites(db, view, out) ==
  [person |-> db.person,
   personal_balance |->
     [p \in DOMAIN db.personal_balance
              \cup (DOMAIN out.personal_balance \ DOMAIN view.personal_balance) |->
        IF p \notin DOMAIN view.personal_balance
        THEN IF p \in DOMAIN out.personal_balance THEN out.personal_balance[p]
             ELSE db.personal_balance[p]
        ELSE [main_savings_balance |->
                db.personal_balance[p].main_savings_balance
                  + out.personal_balance[p].main_savings_balance
                  - view.personal_balance[p].main_savings_balance,
              validity_savings_balance |->
                db.personal_balance[p].validity_savings_balance
                  + out.personal_balance[p].validity_savings_balance
                  - view.personal_balance[p].validity_savings_balance]],
   group_pool |->
     [t \in DOMAIN db.group_pool |->
        db.group_pool[t] + out.group_pool[t] - view.group_pool[t]],
   borrowing |->
     [i \in 1 .. Len(db.borrowing) |->
        IF i > Len(view.borrowing)
        THEN IF i <= Len(out.borrowing) THEN out.borrowing[i] ELSE db.borrowing[i]
        ELSE IF out.borrowing[i] # view.borrowing[i] THEN out.borrowing[i]
        ELSE db.borrowing[i]],
   payment |-> db.payment \o SubSeq(out.payment, Len(view.payment) + 1, Len(out.payment)),
   daily_summary |->
     [k \in DOMAIN db.daily_summary
              \cup (DOMAIN out.daily_summary \ DOMAIN view.daily_summary) |->
        IF k \notin DOMAIN view.daily_summary
        THEN IF k \in DOMAIN out.daily_summary THEN out.daily_summary[k]
             ELSE db.daily_summary[k]
        ELSE [validity_paid |->
                IF out.daily_summary[k].validity_paid # view.daily_summary[k].validity_paid
                THEN out.daily_summary[k].validity_paid
                ELSE db.daily_summary[k].validity_paid,
              units_count |->
                db.daily_summary[k].units_count + out.daily_summary[k].units_count
                  - view.daily_summary[k].units_count,
              fine_amount |->
                db.daily_summary[k].fine_amount + out.daily_summary[k].fine_amount
                  - view.daily_summary[k].fine_amount]],
   transaction_log |->
     db.transaction_log
       \o SubSeq(out.transaction_log, Len(view.transaction_log) + 1,
                 Len(out.transaction_log))]

\* a second row with the key of a row of the table: the key is unique, and the
\* INSERT fails
DuplicateKey(db, row) == Found(db, row)

\* the rows connection s still has to lock for the statement it runs next
Needed(s) ==
  LET statement == StatementOf(txn[s].req, txn[s].pc + 1, now, DB, txn[s].view,
                               {txn[u] : u \in Sessions \ {s}})
      NotHeld(row) == row \notin txn[s].held
  IN SelectSeq(statement.lock, NotHeld)

\* connection s waits for a row that connection u holds
WaitsFor(s, u) ==
  /\ txn[s].status = "running" /\ txn[s].pc < Statements(txn[s].req)
  /\ Needed(s) # <<>> /\ Needed(s)[1] \in txn[u].held

\* the tables are those of db
Becomes(db) ==
  /\ person' = db.person
  /\ personal_balance' = db.personal_balance
  /\ group_pool' = db.group_pool
  /\ borrowing' = db.borrowing
  /\ payment' = db.payment
  /\ daily_summary' = db.daily_summary
  /\ transaction_log' = db.transaction_log

\* the transaction of connection s ends with the response res; its locks are released
Ended(s, res) ==
  txn' = [txn EXCEPT ![s] = [@ EXCEPT !.status = "done", !.held = {}, !.res = res]]

\* connection s goes on with its next statement.  The statement gets the next row
\* it locks, when no other connection holds it; with its last row it runs: an
\* INSERT of a key that is there throws, and the catch block rolls back; a check
\* that fails after the statement rolls back and answers; the INSERT of a borrowing
\* takes the next id
Run(s) ==
  /\ txn[s].status = "running" /\ txn[s].pc < Statements(txn[s].req)
  /\ \A u \in Sessions \ {s} : ~WaitsFor(s, u)
  /\ LET statement == StatementOf(txn[s].req, txn[s].pc + 1, now, DB, txn[s].view,
                                  {txn[u] : u \in Sessions \ {s}})
         held == txn[s].held \cup {Needed(s)[n] : n \in 1 .. Len(Needed(s))}
         view == ReadTables(txn[s].view, DB, statement.read)
         out == Handle(txn[s].req, now, view, CHOOSE f \in Firsts(txn[s].req, view) : TRUE)
         id == Len(borrowing) + 1
     IN IF Len(Needed(s)) > 1
        THEN /\ txn' = [txn EXCEPT ![s].held = @ \cup {Needed(s)[1]}]
             /\ UNCHANGED tables
        ELSE IF \E row \in statement.insert : DuplicateKey(DB, row)
        THEN /\ Ended(s, StoreError(DB, view, txn[s].req.op).res)
             /\ UNCHANGED tables
        ELSE IF out.res.status >= 400 /\ statement.stop \cap {out.res.error, "*"} # {}
        THEN /\ Ended(s, out.res)
             /\ UNCHANGED tables
        ELSE IF statement.borrowed
        THEN /\ txn' = [txn EXCEPT ![s].pc = @ + 1, ![s].view = view,
                                   ![s].held = held \cup {<<"borrowing", id>>}]
             /\ borrowing' = Append(borrowing, NoRow)
             /\ UNCHANGED <<person, personal_balance, group_pool, payment,
                            daily_summary, transaction_log>>
        ELSE /\ txn' = [txn EXCEPT ![s].pc = @ + 1, ![s].view = view, ![s].held = held]
             /\ UNCHANGED tables
  /\ UNCHANGED <<now, request, response, served>>

\* conn.commit() after the last statement, and the response
Finish(s) ==
  /\ txn[s].status = "running" /\ txn[s].pc = Statements(txn[s].req)
  /\ \E first \in Firsts(txn[s].req, txn[s].view) :
       LET out == Handle(txn[s].req, now, txn[s].view, first)
       IN /\ Ended(s, out.res)
          /\ IF out.res.status >= 400 THEN UNCHANGED tables
             ELSE Becomes(CommitWrites(DB, txn[s].view, out.db))
  /\ UNCHANGED <<now, request, response, served>>

----------------------------------------------------------------------------
(* The concurrent runs start on the day the first borrowing is a full period       *)
(* overdue, from the funded ledger with two open borrowings: 1000.00 of member 1   *)
(* from the MAIN pool and 1.02 of member 2, by override, from the VALIDITY pool.   *)
(* Two requests arrive, one on each connection, at any time.                       *)

ConcurrentDB ==
  LET d1 == borrow(FundedDB, StartDay, 1, "MAIN", MainLoan, FALSE, "", TRUE).db
  IN borrow(d1, StartDay, 2, "VALIDITY", ValidityLoan, TRUE, ADMIN_PASSWORD, TRUE).db

\* the borrow, repay, payFull and sweep requests of a concurrent run: member 1
\* borrows to the limit from the VALIDITY pool, member 2 all of it by override, and
\* member 1 a part of the MAIN pool by override; member 1 repays a part or all of
\* borrowing 1 or pays either pool in full; either sweep runs
LoanRequests ==
  LET limit == AllowedLimit(ConcurrentDB, 1, "VALIDITY", TRUE)
      funds == ConcurrentDB.group_pool["VALIDITY"]
  IN {[op |-> "borrow", personId |-> 1, poolType |-> "VALIDITY", amount |-> limit,
       adminOverride |-> FALSE, adminPassword |-> "", tieUp |-> TRUE],
      [op |-> "borrow", personId |-> 2, poolType |-> "VALIDITY", amount |-> funds,
       adminOverride |-> TRUE, adminPassword |-> ADMIN_PASSWORD, tieUp |-> TRUE],
      [op |-> "borrow", personId |-> 1, poolType |-> "MAIN", amount |-> PartAmount,
       adminOverride |-> TRUE, adminPassword |-> ADMIN_PASSWORD, tieUp |-> TRUE]}
       \cup {[op |-> "repay", personId |-> 1, borrowingId |-> 1, amount |-> a] :
               a \in {PartAmount, ConcurrentDB.borrowing[1].outstanding_amount}}
       \cup {[op |-> "payFull", personId |-> 1, poolType |-> t] : t \in PoolTypes}
       \cup {[op |-> o, tieUp |-> TRUE] : o \in {"runPenalties", "adminRunPenalties"}}

\* the savings requests of a concurrent run: member 2 saves for today, which has
\* no daily_summary row, and for the day before StartDay, which has three units and
\* no fee; member 3 was never created and has no personal_balance row
SavingRequests ==
  {[op |-> "save", personId |-> p, units |-> u, payValidity |-> TRUE,
    effectiveDate |-> d] :
     p \in {2, 3}, u \in {1, 3}, d \in {Null, Some(StartDay - 1)}}
    \cup {[op |-> "retroactive", personId |-> p, date |-> Some(StartDay - 1),
           addUnits |-> 1, payValidityIfMissing |-> TRUE] : p \in {2, 3}}

InitConcurrent ==
  /\ Holds(ConcurrentDB) /\ now = StartDay + 2 * MAIN_PERIOD_DAYS /\ request = NoRequest
  /\ response = NoResponse /\ served = 0
  /\ txn = [s \in Sessions |-> [status |-> "idle", held |-> {}]]

\* a request arrives on connection s, and conn.beginTransaction(); overlaps tells
\* whether the transaction of another connection is open then
Begin(s) ==
  /\ txn[s].status = "idle"
  /\ \E req \in LoanRequests \cup SavingRequests :
       txn' = [txn EXCEPT ![s] =
                  [status |-> "running", req |-> req, pc |-> 0, held |-> {},
                   view |-> DB, res |-> NoResponse,
                   overlaps |-> \E u \in Sessions \ {s} : txn[u].status = "running"]]
  /\ UNCHANGED <<tables, now, request, response, served>>

NextConcurrent == \E s \in Sessions : Begin(s) \/ Run(s) \/ Finish(s)

SpecConcurrent == InitConcurrent /\ [][NextConcurrent]_vars

----------------------------------------------------------------------------
(* The locks of every mutating handler, deleteMember among them.  These runs       *)
(* follow who holds and who waits for which row: a transaction that ran its last   *)
(* statement ends and releases its rows, and the tables stay as they are.  When    *)
(* two transactions wait for each other the store rolls one of them back, and      *)
(* its statement throws.                                                           *)

\* a request arrives on connection s: one of those of a concurrent run, or the
\* deletion of a member
LockBegin(s) ==
  /\ txn[s].status = "idle"
  /\ \E req \in LoanRequests \cup SavingRequests
                 \cup {[op |-> "deleteMember", person_id |-> q,
                        password |-> ADMIN_PASSWORD] : q \in ConcurrentDB.person} :
       txn' = [txn EXCEPT ![s] =
                  [status |-> "running", req |-> req, pc |-> 0, held |-> {},
                   view |-> DB, res |-> NoResponse,
                   overlaps |-> \E u \in Sessions \ {s} : txn[u].status = "running"]]
  /\ UNCHANGED <<tables, now, request, response, served>>

\* the transaction ran its last statement: it ends and its rows are released
Release(s) ==
  /\ txn[s].status = "running" /\ txn[s].pc = Statements(txn[s].req)
  /\ Ended(s, NoResponse)
  /\ UNCHANGED <<tables, now, request, response, served>>

\* the store finds that s and another connection wait for each other and rolls the
\* transaction of s back: the statement of s throws
Victim(s) ==
  /\ \E u \in Sessions \ {s} : WaitsFor(s, u) /\ WaitsFor(u, s)
  /\ Ended(s, StoreError(DB, txn[s].view, txn[s].req.op).res)
  /\ UNCHANGED <<tables, now, request, response, served>>

NextLocks ==
  \E s \in Sessions : LockBegin(s) \/ Run(s) \/ Release(s) \/ Victim(s)

SpecLocks == InitConcurrent /\ [][NextLocks]_vars

----------------------------------------------------------------------------
(* Properties of concurrent borrow, repay, payFull and sweeps, checked under      *)
(* SpecConcurrent *)

\* both connections have answered
BothDone == \A s \in Sessions : txn[s].status = "done"

\* the rows of two tables are the same, whatever their order
SameRows(rows, others) ==
  /\ Len(rows) = Len(others)
  /\ \A i \in 1 .. Len(rows) :
       Cardinality({j \in 1 .. Len(rows) : rows[j] = rows[i]})
         = Cardinality({j \in 1 .. Len(others) : others[j] = rows[i]})

\* two databases hold the same rows: payment and transaction_log may hold them in
\* another order
SameDB(db, other) ==
  /\ db.person = other.person
  /\ db.personal_balance = other.personal_balance
  /\ db.group_pool = other.group_pool
  /\ db.borrowing = other.borrowing
  /\ db.daily_summary = other.daily_summary
  /\ SameRows(db.payment, other.payment)
  /\ SameRows(db.transaction_log, other.transaction_log)

\* the outcomes of the handler of a called on ConcurrentDB and then the handler of b
SerialOutcomes(a, b) ==
  UNION {LET one == Handle(a, now, ConcurrentDB, f)
         IN {[db |-> Handle(b, now, one.db, g).db, first |-> one.res,
              second |-> Handle(b, now, one.db, g).res] :
               g \in Firsts(b, one.db)} : f \in Firsts(a, ConcurrentDB)}

\* the tables and the two responses are those of the two handlers called one after
\* the other, in some order
Serialized ==
  \E s \in Sessions :
    \E u \in Sessions \ {s} :
      \E o \in SerialOutcomes(txn[s].req, txn[u].req) :
        SameDB(DB, o.db) /\ txn[s].res = o.first /\ txn[u].res = o.second

\* the DEBT_PAYMENT amounts applied to the borrowing of id
RECURSIVE Repaid(_, _, _)
Repaid(rows, id, n) ==
  IF n = 0 THEN 0
  ELSE Repaid(rows, id, n - 1)
         + (IF rows[n].type = "DEBT_PAYMENT" /\ rows[n].applied_to_borrowing_id = Some(id)
            THEN rows[n].amount ELSE 0)

\* C23: when two of borrow, repay, payFull and the penalty sweeps ran on two
\* connections, the committed tables and both responses are those of the two
\* handlers called one after the other in some order; no pool is ever debited below
\* zero; two borrows of one person from one pool without override are not both
\* granted; and the repayments of a borrowing that no sweep touched add up to at
\* most what was outstanding
C23_Serialized ==
  /\ \A t \in PoolTypes : group_pool[t] >= 0
  /\ (BothDone /\ \A s \in Sessions : txn[s].req \in LoanRequests) =>
       /\ Serialized
       /\ (/\ txn[1].req = txn[2].req /\ txn[1].req.op = "borrow"
           /\ ~txn[1].req.adminOverride)
            => ~(txn[1].res.status = 200 /\ txn[2].res.status = 200)
       /\ (\A s \in Sessions : txn[s].req.op \in {"repay", "payFull"})
            => \A id \in 1 .. Len(ConcurrentDB.borrowing) :
                 Repaid(payment, id, Len(payment))
                   <= ConcurrentDB.borrowing[id].outstanding_amount

\* two borrows from the VALIDITY pool that together ask for more than it holds
\* overlapped, and one was granted and the other refused for lack of funds
C23_Witness ==
  /\ BothDone
  /\ \E s \in Sessions : txn[s].overlaps
  /\ \A s \in Sessions : txn[s].req.op = "borrow" /\ txn[s].req.poolType = "VALIDITY"
  /\ \E s \in Sessions :
       /\ txn[s].res.status = 200
       /\ \E u \in Sessions : txn[u].res.error = "INSUFFICIENT_GROUP_FUNDS"

----------------------------------------------------------------------------
(* Properties of the locks, checked under SpecLocks *)

\* C22: no two transactions of save, retroactiveFill, borrow, repay, payFull, the
\* penalty sweeps and deleteMember ever wait for a row of each other
C22_NoDeadlock ==
  \A s \in Sessions : \A u \in Sessions \ {s} : ~(WaitsFor(s, u) /\ WaitsFor(u, s))

----------------------------------------------------------------------------
(* Properties of concurrent saves, checked under SpecConcurrent *)

\* the transaction of connection s commits in this step
Commits(s) == txn[s].status = "running" /\ txn'[s].status = "done" /\ txn'[s].res.status < 400

----------------------------------------------------------------------------
(* Frame of the penalty sweeps, checked under SpecSweep *)

\* the full periods of its pool that an OPEN borrowing is overdue by, counted from
\* the later of its due date and its last penalty
PeriodsOverdue(b) ==
  IF b.status = "OPEN" /\ now > b.due_date
  THEN (now - PenaltyClock(b)) \div PoolPeriod(b.pool_type)
  ELSE 0

\* the borrowing changed in nothing but its outstanding amount and the time of its
\* last penalty
OnlyPenalized(old, new) ==
  new = [old EXCEPT !.outstanding_amount = new.outstanding_amount,
                    !.last_penalty_applied_at = new.last_penalty_applied_at]

\* C31: a penalty sweep leaves the pools, the personal balances, the payments, the
\* daily summaries and the members as they are and adds or removes no borrowing;
\* every OPEN borrowing that is overdue by at least one full period of its pool
\* changes in its outstanding amount and the time of its last penalty alone, its
\* outstanding amount does not decrease, and exactly one PENALTY row is logged for
\* it, with a period count of at least 1 and the increase as its amount; every
\* other borrowing stays as it is and gets no row; and nothing else is logged
C31_SweepFrame ==
  [][SweepStep
       => /\ UNCHANGED <<person, personal_balance, group_pool, payment, daily_summary>>
          /\ Len(borrowing') = Len(borrowing)
          /\ RowsKept(transaction_log, transaction_log')
          /\ \A n \in Len(transaction_log) + 1 .. Len(transaction_log') :
               transaction_log'[n].transaction_type = "PENALTY"
          /\ \A i \in 1 .. Len(borrowing) :
               LET new == PenaltyRows(transaction_log', i) \ PenaltyRows(transaction_log, i)
               IN IF PeriodsOverdue(borrowing[i]) >= 1
                  THEN /\ OnlyPenalized(borrowing[i], borrowing'[i])
                       /\ borrowing'[i].outstanding_amount >= borrowing[i].outstanding_amount
                       /\ Cardinality(new) = 1
                       /\ \A n \in new :
                            /\ transaction_log'[n].details.periods >= 1
                            /\ transaction_log'[n].amount
                                 = borrowing'[i].outstanding_amount
                                     - borrowing[i].outstanding_amount
                  ELSE NotPenalized(i)]_vars

----------------------------------------------------------------------------
(* Invariants of the ledger, checked under SpecLedger and, for the interleavings, *)
(* under SpecConcurrent *)

\* the daily_summary rows of a person
DaysOf(personId) == {k \in Days : k[1] = personId}

\* C32: in every state, for every person with a personal_balance row, the main
\* savings balance is UNIT_PRICE times the units of the daily_summary rows of the
\* person, and the validity savings balance is VALIDITY_FEE times the number of
\* those rows whose fee is paid
C32_BalancesOfDays ==
  \A p \in DOMAIN personal_balance :
    /\ personal_balance[p].main_savings_balance
         = UNIT_PRICE * SumUnits(daily_summary, DaysOf(p))
    /\ personal_balance[p].validity_savings_balance
         = VALIDITY_FEE * Cardinality(PaidDays(p))

\* the pool a payment row pays into: UNIT and FINE the MAIN pool, VALIDITY the
\* VALIDITY pool, DEBT_PAYMENT the pool of the borrowing it is applied to
PoolOf(r) ==
  CASE r.type \in {"UNIT", "FINE"} -> "MAIN"
    [] r.type = "VALIDITY" -> "VALIDITY"
    [] r.type = "DEBT_PAYMENT" ->
         IF r.applied_to_borrowing_id # Null
              /\ r.applied_to_borrowing_id[1] \in 1 .. Len(borrowing)
         THEN borrowing[r.applied_to_borrowing_id[1]].pool_type
         ELSE ""
    [] OTHER -> ""

\* the amounts of the first n payment rows that pay into the pool
RECURSIVE PaidIn(_, _)
PaidIn(poolType, n) ==
  IF n = 0 THEN 0
  ELSE PaidIn(poolType, n - 1)
         + (IF PoolOf(payment[n]) = poolType THEN payment[n].amount ELSE 0)

\* the principals of the first n borrowings that are of the pool
RECURSIVE Lent(_, _)
Lent(poolType, n) ==
  IF n = 0 THEN 0
  ELSE Lent(poolType, n - 1)
         + (IF borrowing[n].pool_type = poolType THEN borrowing[n].principal ELSE 0)

\* C33: in every state, the balance of each pool is the sum of the payments into
\* it (UNIT and FINE into MAIN, VALIDITY into VALIDITY, DEBT_PAYMENT into the
\* pool of the borrowing it is applied to) minus the principals of the borrowings
\* from it
C33_PoolsReconcile ==
  \A t \in PoolTypes :
    group_pool[t] = PaidIn(t, Len(payment)) - Lent(t, Len(borrowing))

\* C34: in every state, whatever requests ran and however their statements
\* interleaved, both pools are at least 0 and both balances of every
\* personal_balance row are at least 0
C34_NothingNegative ==
  /\ \A t \in PoolTypes : group_pool[t] >= 0
  /\ \A p \in DOMAIN personal_balance :
       /\ personal_balance[p].main_savings_balance >= 0
       /\ personal_balance[p].validity_savings_balance >= 0

\* two borrows from the VALIDITY pool overlapped, one of them of all the pool
\* held: it was granted, the other was refused, and the pool is at 0
C34_Witness ==
  /\ BothDone
  /\ \E s \in Sessions : txn[s].overlaps
  /\ \E s \in Sessions :
       /\ txn[s].req.op = "borrow" /\ txn[s].req.poolType = "VALIDITY"
       /\ txn[s].req.amount = ConcurrentDB.group_pool["VALIDITY"]
       /\ txn[s].res.status = 200
       /\ \E u \in Sessions \ {s} :
            /\ txn[u].req.op = "borrow" /\ txn[u].req.poolType = "VALIDITY"
            /\ txn[u].res.status >= 400
  /\ group_pool["VALIDITY"] = 0

----------------------------------------------------------------------------
(* The periods of a schedule of sweeps, checked under SpecSweep *)

\* the periods that the PENALTY log rows ns record
RECURSIVE SumPeriods(_)
SumPeriods(ns) ==
  IF ns = {} THEN 0
  ELSE LET n == CHOOSE x \in ns : TRUE
       IN transaction_log[n].details.periods + SumPeriods(ns \ {n})

\* the periods that all the sweeps so far compounded on the borrowing
TotalPeriods(id) == SumPeriods(PenaltyRows(transaction_log, id))

\* the full periods of its pool that have passed since the due date of a borrowing
PeriodsSinceDue(b) ==
  IF now > b.due_date THEN (now - b.due_date) \div PoolPeriod(b.pool_type) ELSE 0

\* C35: when a sweep has run at the present time, the periods that it and the
\* sweeps before it compounded on an OPEN borrowing add up to the full periods
\* of its pool between its due date and now, however many sweeps ran and when
C35_PeriodsOfSchedule ==
  (request.op \in {"runPenalties", "adminRunPenalties"} /\ request.at = now)
    => \A i \in 1 .. Len(borrowing) :
         borrowing[i].status = "OPEN"
           => TotalPeriods(i) = PeriodsSinceDue(borrowing[i])

----------------------------------------------------------------------------
(* Frame of borrow, repay and payFull, checked under SpecLedger *)

\* a step in which borrow, repay or payFull serves a request
LoanStep ==
  /\ served' = served + 1
  /\ request'.op \in {"borrow", "repay", "payFull"}

\* the pool the request of the step is about: the pool it names, or the pool of
\* the borrowing that a repay names
PoolAsked ==
  IF request'.op = "repay" THEN borrowing[request'.borrowingId].pool_type
  ELSE request'.poolType

\* the borrowings that the step changed
ChangedBorrowings == {i \in 1 .. Len(borrowing) : borrowing'[i] # borrowing[i]}

\* C36: a step of borrow, repay or payFull changes no personal_balance row, no
\* daily_summary row and no member, whatever it answers; refused, it changes no
\* pool; granted on a pool, it leaves the other pool as it is, keeps every payment
\* and log row and appends to them, and changes one borrowing alone: borrow adds
\* one borrowing of the pool and changes none, repay and payFull change one
\* borrowing of the pool and the person and add none
C36_LoanFrame ==
  [][LoanStep
       => /\ UNCHANGED <<person, personal_balance, daily_summary>>
          /\ response'.status # 200 => UNCHANGED group_pool
          /\ response'.status = 200
               => /\ \A t \in PoolTypes \ {PoolAsked} : group_pool'[t] = group_pool[t]
                  /\ RowsKept(payment, payment')
                  /\ RowsKept(transaction_log, transaction_log')
                  /\ IF request'.op = "borrow"
                     THEN /\ ChangedBorrowings = {}
                          /\ Len(borrowing') = Len(borrowing) + 1
                          /\ Last(borrowing').pool_type = PoolAsked
                     ELSE /\ Len(borrowing') = Len(borrowing)
                          /\ Cardinality(ChangedBorrowings) = 1
                          /\ \A i \in ChangedBorrowings :
                               /\ borrowing[i].pool_type = PoolAsked
                               /\ borrowing[i].person_id = request'.personId]_vars

\* a repay was granted on a borrowing from one pool while the other pool, a
\* personal_balance row and a daily_summary row were there to be left alone
C36_Witness ==
  /\ request.op = "repay" /\ response.status = 200
  /\ "failsAt" \notin DOMAIN request
  /\ \E t \in PoolTypes \ {borrowing[request.borrowingId].pool_type} : group_pool[t] > 0
  /\ DOMAIN personal_balance # {} /\ Days # {}

=============================================================================
